---- MODULE Spec2Model ----
(***************************************************************************)
(* State-machine model of the rendezvous server of cloud_voip_server.py    *)
(* (session directory, call table, audio relay) and of the audio datagram  *)
(* codec shared with cloud_voip_client.py.                                 *)
(*                                                                         *)
(* Ids, names and datagrams are byte strings, modelled as sequences of     *)
(* integers 0..255.  Python's None is the one-element sequence <<-1>>,     *)
(* which no byte string equals.                                            *)
(***************************************************************************)
EXTENDS Integers, Sequences, FiniteSets, TLC

\* ------------------------------------------------------------------ bounds
MaxTime == 1        \* the clock int(time.time()) runs over 0..MaxTime
MaxCalls == 2       \* at most this many records in the call table

\* ------------------------------------------------------- program constants
IdField == 16       \* bytes of one id field of the audio header
HeaderLen == 32     \* bytes of the audio header

\* --------------------------------------------------------------- universe
NoneId == <<-1>>                         \* Python None where an id is expected
Alice == <<97>>
Bob == <<98>>
Ids == {Alice, Bob}
NameA == <<65>>
Names == {NameA}
NoName == <<-1>>                         \* message without 'client_name'
NoPort == -1                             \* audio_port None
Ports == {7001}
Conns == {"c1", "c2"}
NoAddr == <<"", 0>>                      \* target_audio_addr = None
NoDatagram == [data |-> <<>>, addr |-> NoAddr]
\* datagram source addresses: one behind a port mapping, one not
AudioAddrs == {<<"10.0.0.1", 7002>>, <<"10.0.0.2", 7001>>}
Payloads == {<<>>, <<1, 2>>}

\* peer address of a control connection (the addr handed to the handler)
PeerAddr(c) ==
  IF c = "c1" THEN <<"10.0.0.1", 40001>> ELSE <<"10.0.0.2", 40002>>

\* ---------------------------------------------------------- byte strings
RECURSIVE Zeros(_)
Zeros(n) == IF n <= 0 THEN <<>> ELSE <<0>> \o Zeros(n - 1)

\* bytes.ljust(n, b'\x00'): pads on the right, never truncates
LJust(s, n) == IF Len(s) >= n THEN s ELSE s \o Zeros(n - Len(s))

\* bytes.rstrip(b'\x00')
RECURSIVE RStrip(_)
RStrip(s) ==
  IF s = <<>> THEN <<>>
  ELSE IF s[Len(s)] = 0 THEN RStrip(SubSeq(s, 1, Len(s) - 1)) ELSE s

\* Python slice data[a:b] with 0 <= a <= b (clipped to the length)
Slice(s, a, b) ==
  SubSeq(s, a + 1, IF b > Len(s) THEN Len(s) ELSE b)

\* str(int) for a non-negative integer, as ASCII digits
RECURSIVE DecStr(_)
DecStr(n) == IF n < 10 THEN <<48 + n>> ELSE DecStr(n \div 10) \o <<48 + (n % 10)>>

\* f"{x}" of an id that may be None
FmtId(x) == IF x = NoneId THEN <<78, 111, 110, 101>> ELSE x

\* truth value of an id in "if client_id:" / "if source_id:"
Truthy(x) == x # NoneId /\ x # <<>>

\* ------------------------------------------------------------ audio codec
\* header built by the sender and rebuilt by the relay
BuildHeader(source_id, target_id) ==
  LJust(source_id, IdField) \o LJust(target_id, IdField)

BuildPacket(source_id, target_id, audio_data) ==
  BuildHeader(source_id, target_id) \o audio_data

\* the datagram audio_send_loop builds on the client
ClientPacket(client_id, target_id, processed_data) ==
  LJust(client_id, IdField) \o LJust(target_id, IdField) \o processed_data

\* mutant of ValidDatagram: a datagram of exactly the header is accepted
ValidDatagram_AtLeastHeader(data) == Len(data) >= HeaderLen

\* the relay accepts a datagram only if it is longer than the header
ValidDatagram(data) == Len(data) > HeaderLen

ParseSource(data) == RStrip(Slice(data, 0, IdField))

\* mutant of ParseTarget: the slice of the target field has no upper end
ParseTarget_NoEnd(data) == RStrip(Slice(data, IdField, Len(data)))

ParseTarget(data) == RStrip(Slice(data, IdField, HeaderLen))
ParsePayload(data) == Slice(data, HeaderLen, Len(data))

\* the receiving client: audio_receive_loop plays data[32:] of a datagram
\* longer than the header; the test client also reads the two id fields
ClientAccepts(data) == Len(data) > HeaderLen
ClientPayload(data) == Slice(data, HeaderLen, Len(data))
ClientSource(data) == RStrip(Slice(data, 0, IdField))
ClientTarget(data) == RStrip(Slice(data, IdField, HeaderLen))

\* ------------------------------------------------------------- dictionaries
\* A Python dict is a function whose domain is the set of its keys.
Put(d, k, v) == [x \in (DOMAIN d) \cup {k} |-> IF x = k THEN v ELSE d[x]]
Del(d, k) == [x \in (DOMAIN d) \ {k} |-> d[x]]
EmptyDict == [x \in {} |-> 0]
\* dict.get(k) with None as NoPort, for the 'audio_port' key
GetPort(e) == IF "audio_port" \in DOMAIN e THEN e.audio_port ELSE NoPort

\* no frame in the codec
IdleCodec ==
  [stage |-> "idle", source_id |-> <<>>, target_id |-> <<>>, payload |-> <<>>,
   packet |-> <<>>]

\* self.current_call = None
NoCall == [id |-> NoneId, peer |-> NoneId, status |-> "none"]
\* no client operation has run
NoOp == [op |-> "none", who |-> NoneId, ret |-> TRUE]
\* no control frame has been read
\* the three table locks, and the threads that take them: one handler thread
\* per control connection, the relay thread and the thread that asks for the
\* server status (the console, or the handler of a control client)
Locks == {"clients_lock", "calls_lock", "rooms_lock"}
Threads == Conns \cup {"relay", "status"}
NoFrame == [conn |-> "", client_id |-> NoneId, length |-> 0, body |-> <<>>]
\* the handler thread of a connection has no register message in hand
NoPend ==
  [stage |-> "idle", id |-> NoneId, name |-> NoName, port |-> NoPort,
   seen |-> EmptyDict, raced |-> FALSE]

\* ------------------------------------------------------------------ state
VARIABLES
  now,                 \* int(time.time())
  conn,                \* per control connection: state and the handler's client_id
  clients,             \* self.clients
  client_sockets,      \* self.client_sockets
  client_audio_addrs,  \* self.client_audio_addrs
  calls,               \* self.calls
  sent,                \* control messages written by the last handler
  udpIn,               \* the datagram the last relay step received
  udpSent,             \* datagrams sent by the last relay step
  last,                \* name of the operation handled last
  heard,               \* history: per id, the last two distinct addresses that
                       \* sent a valid datagram claiming it, oldest first
  ended,               \* history: the call id handle_call_hangup deleted last
  left,                \* history: ids whose connection closed after they
                       \* registered and that have not registered since
                       \* (kept in SpecDirectory only)
  step,                \* phase of the end-to-end scenario (moves in SpecE2E only)
  codec,               \* one audio frame on its way through the codec (SpecCodec only)
  current_call,        \* client side, per endpoint: self.current_call
  pending_calls,       \* client side, per endpoint: self.pending_calls
  inbox,               \* per connection: server messages the client has not read yet
  online_clients,      \* client side, per endpoint: self.online_clients
  audio,               \* client side, per endpoint: the audio streams and loops
  clientOp,            \* client side: the operation run last and what it returned
  pend,                \* per connection: the register message its handler thread
                       \* is working on (moves in SpecThreads only)
  locks,               \* per table lock: the thread that holds it, or "free"
  thread,              \* per server thread: the instructions its handler has
                       \* still to run (moves in SpecLocks only)
  stalled,             \* connections whose peer does not read: a write to them
                       \* does not return
  settings,            \* client side: the audio settings of one client
  audio_history,       \* client side: self.audio_history
  consecutive_silence, \* client side: the counter of audio_send_loop
  sendIter,            \* history: the last iteration of audio_send_loop
  rx,                  \* per receive-loop thread: its position in
                       \* process_output_audio and the chunk it holds
  arrived,             \* history: the processed chunks in the order in which
                       \* process_output_audio was called for them
  wire,                \* the bytes a peer wrote on a control connection that
                       \* the server has not read yet
  written,             \* history: the bodies of the frames the peer wrote
  decoder,             \* the position of handle_message_client in its read loop
  detector,            \* client side: the state of detect_voice_activity
  frame                \* the control frame read last: its connection, the id the
                       \* handler held, the length prefix and the first bytes
                       \* of the body (SpecFrames only)

\* the state of the server and its history variables
svars == <<now, conn, clients, client_sockets, client_audio_addrs, calls,
           sent, udpIn, udpSent, last, heard, ended>>

\* the state of the client programs (moves in SpecClient only)
cvars == <<current_call, pending_calls, inbox, online_clients, audio, clientOp>>

\* the locks and the position of every thread (move in SpecLocks only)
lvars == <<locks, thread, stalled>>

\* the read loop of one control connection and the voice detector of one
\* client (move in SpecStream and SpecVad only)
dvars == <<wire, written, decoder, detector>>

\* the audio pipeline of one client (moves in SpecSend and SpecReceive only)
pvars == <<settings, audio_history, consecutive_silence, sendIter, rx, arrived>>

vars == <<now, conn, clients, client_sockets, client_audio_addrs, calls,
          sent, udpIn, udpSent, last, heard, ended, left, step, codec,
          current_call, pending_calls, inbox, online_clients, audio, clientOp, pend,
          locks, thread, stalled, settings, audio_history, consecutive_silence,
          sendIter, rx, arrived, wire, written, decoder, detector, frame>>

\* ----------------------------------------------------- audio settings
MaxHistory == 2     \* history_size is at most this (5 in the default configuration)

\* volumes in tenths: 10 is 1.0
DefaultSettings ==
  [echo_cancellation |-> TRUE, noise_suppression |-> TRUE,
   auto_gain_control |-> TRUE, voice_activity_detection |-> TRUE,
   input_volume |-> 7, output_volume |-> 8, history_size |-> MaxHistory]

\* an audio chunk: its bytes and the conditioning stages that changed it
NoChunk == [data |-> <<>>, stages |-> <<>>]
NoIteration ==
  [raw |-> NoChunk, voice |-> TRUE, examined |-> NoChunk,
   out |-> NoChunk, sent |-> FALSE, ran |-> FALSE]
\* handle_message_client at the top of its loop, nothing read yet
IdleDecoder ==
  [phase |-> "length", msg_length |-> 0, data |-> <<>>, messages |-> <<>>,
   cause |-> "none"]
\* detect_voice_activity was never called: no voice_history attribute
NoVad == [has_history |-> FALSE, voice_history |-> <<>>, all_voice |-> TRUE,
          voice_score |-> 0, returned |-> TRUE]
\* the threads that can run audio_receive_loop at the same time
RxThreads == {"r1", "r2"}
OffRx == [pc |-> "off", chunk |-> NoChunk]

\* available: AUDIO_AVAILABLE and self.audio_instance; streams: whether
\* self.audio_input and self.audio_output hold streams; orphans: stream pairs
\* that were opened, never closed, and that no attribute refers to any more;
\* send_loops, receive_loops: running audio threads
AudioOff(available) ==
  [available |-> available, streams |-> "none", orphans |-> 0,
   send_loops |-> 0, receive_loops |-> 0]

InitBase ==
  /\ now = 0
  /\ conn = [c \in Conns |-> [state |-> "closed", client_id |-> NoneId]]
  /\ clients = EmptyDict
  /\ client_sockets = EmptyDict
  /\ client_audio_addrs = EmptyDict
  /\ calls = EmptyDict
  /\ sent = <<>>
  /\ udpIn = NoDatagram
  /\ udpSent = <<>>
  /\ last = "init"
  /\ heard = [i \in Ids |-> <<>>]
  /\ ended = {}
  /\ left = {}
  /\ current_call = [e \in Ids |-> NoCall]
  /\ pending_calls = [e \in Ids |-> EmptyDict]
  /\ inbox = [c \in Conns |-> <<>>]
  /\ online_clients = [e \in Ids |-> EmptyDict]
  /\ clientOp = NoOp
  /\ pend = [c \in Conns |-> NoPend]
  /\ frame = NoFrame
  /\ locks = [l \in Locks |-> "free"]
  /\ thread = [t \in Threads |-> <<>>]
  /\ stalled = {}
  /\ audio_history = <<>>
  /\ consecutive_silence = 0
  /\ sendIter = NoIteration
  /\ rx = [r \in RxThreads |-> OffRx]
  /\ arrived = <<>>
  /\ wire = <<>>
  /\ written = <<>>
  /\ decoder = IdleDecoder
  /\ detector = NoVad
  /\ step = "register"
  /\ codec = IdleCodec

\* the clients run without audio devices (pyaudio missing: AUDIO_AVAILABLE is
\* False), as in the scripted tests
Init ==
  /\ InitBase
  /\ audio = [e \in Ids |-> AudioOff(FALSE)]
  /\ settings = DefaultSettings

\* alice's client runs with audio devices, bob's without
InitAudio ==
  /\ InitBase
  /\ audio = [e \in Ids |-> AudioOff(e = Alice)]
  /\ settings = DefaultSettings

\* -------------------------------------------------------------- messages
\* socket.send on a connection: the write reaches the peer only while the
\* connection is open; on a closed socket send_message swallows the error.
Deliver(c, msg) ==
  IF conn[c].state = "open" THEN <<[to |-> c, msg |-> msg]>> ELSE <<>>

\* ids of a set in ascending byte order (iteration order of a table)
RECURSIVE IdSeq(_)
IdSeq(S) ==
  IF S = {} THEN <<>>
  ELSE LET m == CHOOSE x \in S : \A y \in S : x[1] <= y[1]
       IN <<m>> \o IdSeq(S \ {m})

\* client_id = message.get('client_id', client_id)
MsgClientId(c, mid) == IF mid = NoneId THEN conn[c].client_id ELSE mid

\* a connection speaks for one id, the one it registers: a later message
\* names no id or that same id
SameIdentity(c, mid) == mid = NoneId \/ conn[c].client_id = mid

\* the entry handle_message_client writes for every parsed message
TouchEntry(c) ==
  [addr |-> PeerAddr(c), socket |-> c, last_seen |-> now, status |-> "online"]

\* "if client_id: self.clients[client_id] = {...}"
TouchClients(c, cid) ==
  IF Truthy(cid) THEN Put(clients, cid, TouchEntry(c)) ELSE clients

TouchSockets(c, cid) ==
  IF Truthy(cid) THEN Put(client_sockets, cid, c) ELSE client_sockets

\* the entry handle_client_register writes
RegisterEntry(c, id, name, port) ==
  [id |-> id,
   name |-> IF name = NoName THEN <<67, 108, 105, 101, 110, 116, 95>> \o id ELSE name,
   addr |-> PeerAddr(c), audio_port |-> port, socket |-> c,
   last_seen |-> now, status |-> "online"]

\* one element of the client_list response
ClientSummary(cl, id) ==
  [id |-> id,
   name |-> IF "name" \in DOMAIN cl[id] THEN cl[id].name ELSE id,
   status |-> cl[id].status,
   last_seen |-> cl[id].last_seen,
   audio_port |-> GetPort(cl[id]),
   addr |-> cl[id].addr]

\* the call id handle_call_request synthesizes
CallId(caller_id, callee_id, t) ==
  FmtId(caller_id) \o <<95>> \o callee_id \o <<95>> \o DecStr(t)

\* ---------------------------------------------------------------- actions
Tick ==
  /\ now < MaxTime
  /\ now' = now + 1
  /\ sent' = <<>>
  /\ udpIn' = NoDatagram
  /\ udpSent' = <<>>
  /\ last' = "tick"
  /\ UNCHANGED ended
  /\ UNCHANGED <<conn, clients, client_sockets, client_audio_addrs, calls, heard>>

\* message_server_thread accepts a connection and starts its handler
Accept(c) ==
  /\ conn[c].state = "closed"
  /\ conn' = [conn EXCEPT ![c] = [state |-> "open", client_id |-> NoneId]]
  /\ sent' = <<>>
  /\ udpIn' = NoDatagram
  /\ udpSent' = <<>>
  /\ last' = "accept"
  /\ UNCHANGED ended
  /\ UNCHANGED <<now, clients, client_sockets, client_audio_addrs, calls, heard>>

\* handle_message_client + handle_client_register
Register(c, id, name, port) ==
  /\ conn[c].state = "open"
  /\ conn[c].client_id \in {NoneId, id}
  /\ conn' = [conn EXCEPT ![c].client_id = id]
  /\ clients' = Put(TouchClients(c, id), id, RegisterEntry(c, id, name, port))
  /\ client_sockets' = Put(TouchSockets(c, id), id, c)
  /\ sent' = Deliver(c, [type |-> "register_response", status |-> "success",
                         client_id |-> id, server_time |-> now])
  /\ udpIn' = NoDatagram
  /\ udpSent' = <<>>
  /\ last' = "register"
  /\ UNCHANGED ended
  /\ UNCHANGED <<now, client_audio_addrs, calls, heard>>

\* handle_message_client + handle_get_clients
GetClients(c, mid) ==
  LET cid == MsgClientId(c, mid)
      cl == TouchClients(c, cid)
  IN /\ conn[c].state = "open"
     /\ SameIdentity(c, mid)
     /\ conn' = [conn EXCEPT ![c].client_id = cid]
     /\ clients' = cl
     /\ client_sockets' = TouchSockets(c, cid)
     /\ sent' = Deliver(c, [type |-> "client_list",
                            clients |-> {ClientSummary(cl, i) : i \in DOMAIN cl}])
     /\ udpIn' = NoDatagram
     /\ udpSent' = <<>>
     /\ last' = "get_clients"
     /\ UNCHANGED ended
     /\ UNCHANGED <<now, client_audio_addrs, calls, heard>>

\* the writes of handle_broadcast_message, in table order
RECURSIVE BroadcastSends(_, _, _)
BroadcastSends(cl, ids, msg) ==
  IF ids = <<>> THEN <<>>
  ELSE (IF Head(ids) # msg.from /\ cl[Head(ids)].status = "online"
        THEN Deliver(cl[Head(ids)].socket, msg) ELSE <<>>)
       \o BroadcastSends(cl, Tail(ids), msg)

\* handle_message_client + handle_broadcast_message
Broadcast(c, mid) ==
  LET cid == MsgClientId(c, mid)
      cl == TouchClients(c, cid)
  IN /\ conn[c].state = "open"
     /\ SameIdentity(c, mid)
     /\ conn' = [conn EXCEPT ![c].client_id = cid]
     /\ clients' = cl
     /\ client_sockets' = TouchSockets(c, cid)
     /\ sent' = BroadcastSends(cl, IdSeq(DOMAIN cl),
                               [type |-> "broadcast", from |-> cid])
     /\ udpIn' = NoDatagram
     /\ udpSent' = <<>>
     /\ last' = "broadcast"
     /\ UNCHANGED ended
     /\ UNCHANGED <<now, client_audio_addrs, calls, heard>>

\* handle_message_client + handle_private_message
Private(c, mid, target) ==
  LET cid == MsgClientId(c, mid)
      cl == TouchClients(c, cid)
  IN /\ conn[c].state = "open"
     /\ SameIdentity(c, mid)
     /\ conn' = [conn EXCEPT ![c].client_id = cid]
     /\ clients' = cl
     /\ client_sockets' = TouchSockets(c, cid)
     /\ sent' = IF target \in DOMAIN cl /\ cl[target].status = "online"
                THEN Deliver(cl[target].socket, [type |-> "private", from |-> cid])
                ELSE <<>>
     /\ udpIn' = NoDatagram
     /\ udpSent' = <<>>
     /\ last' = "private"
     /\ UNCHANGED ended
     /\ UNCHANGED <<now, client_audio_addrs, calls, heard>>

\* call ids a client may name in call_answer / call_hangup: a call of the
\* table, a call that was hung up, or an id the server never issued
KnownCallIds == DOMAIN calls
StrayCallId == <<120>>
NamedCallIds == KnownCallIds \cup ended \cup {StrayCallId}

\* handle_message_client + handle_call_request
CallRequest(c, mid, target) ==
  LET cid == MsgClientId(c, mid)
      cl == TouchClients(c, cid)
      call_id == CallId(cid, target, now)
  IN /\ conn[c].state = "open"
     /\ SameIdentity(c, mid)
     /\ call_id \in DOMAIN calls \/ Cardinality(DOMAIN calls) < MaxCalls
     /\ conn' = [conn EXCEPT ![c].client_id = cid]
     /\ clients' = cl
     /\ client_sockets' = TouchSockets(c, cid)
     /\ calls' = Put(calls, call_id,
                     [caller |-> cid, callee |-> target,
                      status |-> "requesting", start_time |-> now])
     /\ sent' = IF target \in DOMAIN cl /\ cl[target].status = "online"
                THEN Deliver(cl[target].socket,
                             [type |-> "call_request", call_id |-> call_id,
                              from |-> cid])
                ELSE <<>>
     /\ udpIn' = NoDatagram
     /\ udpSent' = <<>>
     /\ last' = "call_request"
     /\ UNCHANGED ended
     /\ UNCHANGED <<now, client_audio_addrs, heard>>

\* handle_message_client + handle_call_answer
CallAnswer(c, mid, call_id, accepted) ==
  LET cid == MsgClientId(c, mid)
      cl == TouchClients(c, cid)
  IN /\ conn[c].state = "open"
     /\ SameIdentity(c, mid)
     /\ conn' = [conn EXCEPT ![c].client_id = cid]
     /\ clients' = cl
     /\ client_sockets' = TouchSockets(c, cid)
     /\ IF call_id \in DOMAIN calls
        THEN LET caller_id == calls[call_id].caller
             IN /\ calls' = [calls EXCEPT ![call_id].status =
                               IF accepted THEN "active" ELSE "rejected"]
                /\ sent' = IF caller_id \in DOMAIN cl
                           THEN Deliver(cl[caller_id].socket,
                                        [type |-> "call_answer", call_id |-> call_id,
                                         accepted |-> accepted, from |-> cid])
                           ELSE <<>>
        ELSE /\ calls' = calls
             /\ sent' = <<>>
     /\ udpIn' = NoDatagram
     /\ udpSent' = <<>>
     /\ last' = "call_answer"
     /\ UNCHANGED ended
     /\ UNCHANGED <<now, client_audio_addrs, heard>>

\* handle_message_client + handle_call_hangup
CallHangup(c, mid, call_id) ==
  LET cid == MsgClientId(c, mid)
      cl == TouchClients(c, cid)
  IN /\ conn[c].state = "open"
     /\ SameIdentity(c, mid)
     /\ conn' = [conn EXCEPT ![c].client_id = cid]
     /\ clients' = cl
     /\ client_sockets' = TouchSockets(c, cid)
     /\ IF call_id \in DOMAIN calls
        THEN LET other_client == IF cid = calls[call_id].caller
                                 THEN calls[call_id].callee
                                 ELSE calls[call_id].caller
             IN /\ calls' = Del(calls, call_id)
                /\ ended' = {call_id}
                /\ sent' = IF other_client \in DOMAIN cl
                           THEN Deliver(cl[other_client].socket,
                                        [type |-> "call_hangup", call_id |-> call_id,
                                         from |-> cid])
                           ELSE <<>>
        ELSE /\ calls' = calls
             /\ ended' = ended
             /\ sent' = <<>>
     /\ udpIn' = NoDatagram
     /\ udpSent' = <<>>
     /\ last' = "call_hangup"
     /\ UNCHANGED <<now, client_audio_addrs, heard>>

\* mutant of CleanupClients: the entry is marked offline and kept
CleanupClients_MarkOffline(cid) ==
  IF Truthy(cid) /\ cid \in DOMAIN clients
  THEN [clients EXCEPT ![cid].status = "offline"] ELSE clients

\* the cleanup of handle_message_client's finally block
CleanupClients(cid) == IF Truthy(cid) THEN Del(clients, cid) ELSE clients
CleanupSockets(cid) == IF Truthy(cid) THEN Del(client_sockets, cid) ELSE client_sockets
CleanupAudioAddrs(cid) ==
  IF Truthy(cid) THEN Del(client_audio_addrs, cid) ELSE client_audio_addrs
CleanupCalls(cid) == calls

\* the control connection closes: recv returns b'' and the handler ends
Disconnect(c) ==
  LET cid == conn[c].client_id
  IN /\ conn[c].state = "open"
     /\ conn' = [conn EXCEPT ![c] = [state |-> "closed", client_id |-> NoneId]]
     /\ clients' = CleanupClients(cid)
     /\ client_sockets' = CleanupSockets(cid)
     /\ client_audio_addrs' = CleanupAudioAddrs(cid)
     /\ calls' = CleanupCalls(cid)
     /\ sent' = <<>>
     /\ udpIn' = NoDatagram
     /\ udpSent' = <<>>
     /\ last' = "disconnect"
     /\ UNCHANGED ended
     /\ heard' = [i \in Ids |-> IF i = cid THEN <<>> ELSE heard[i]]
     /\ UNCHANGED now

\* mutant of LearnAddr: the first address heard for an id is kept
LearnAddr_FirstWins(addrs, source_id, addr) ==
  IF Truthy(source_id) /\ source_id \notin DOMAIN addrs
  THEN Put(addrs, source_id, addr) ELSE addrs

\* audio_relay_thread: "if source_id: self.client_audio_addrs[source_id] = addr"
LearnAddr(addrs, source_id, addr) ==
  IF Truthy(source_id) THEN Put(addrs, source_id, addr) ELSE addrs

\* mutant of ResolveTarget: the declared port is tried before the learned address
ResolveTarget_DeclaredFirst(addrs, cl, target_id) ==
  IF /\ target_id \in DOMAIN cl
     /\ cl[target_id].status = "online"
     /\ GetPort(cl[target_id]) # NoPort
     /\ GetPort(cl[target_id]) # 0
  THEN <<cl[target_id].addr[1], GetPort(cl[target_id])>>
  ELSE IF target_id \in DOMAIN addrs THEN addrs[target_id] ELSE NoAddr

\* forward_audio: the address the target id resolves to, NoAddr if none
ResolveTarget(addrs, cl, target_id) ==
  IF target_id \in DOMAIN addrs THEN addrs[target_id]
  ELSE IF /\ target_id \in DOMAIN cl
          /\ cl[target_id].status = "online"
          /\ GetPort(cl[target_id]) # NoPort
          /\ GetPort(cl[target_id]) # 0
       THEN <<cl[target_id].addr[1], GetPort(cl[target_id])>>
       ELSE NoAddr

\* forward_audio: the datagrams it sends
ForwardAudio(addrs, cl, source_id, target_id, audio_data) ==
  IF Len(audio_data) > 0 /\ ResolveTarget(addrs, cl, target_id) # NoAddr
  THEN <<[to |-> ResolveTarget(addrs, cl, target_id),
          packet |-> BuildPacket(source_id, target_id, audio_data)]>>
  ELSE <<>>

\* history of claimed addresses: append a new address, keep the last two
Hear(h, addr) ==
  IF h # <<>> /\ h[Len(h)] = addr THEN h
  ELSE IF h = <<>> THEN <<addr>> ELSE <<h[Len(h)], addr>>

\* one iteration of audio_relay_thread on a received datagram
Relay(data, addr) ==
  /\ IF ValidDatagram(data)
     THEN LET source_id == ParseSource(data)
              target_id == ParseTarget(data)
              audio_data == ParsePayload(data)
              addrs == LearnAddr(client_audio_addrs, source_id, addr)
          IN /\ client_audio_addrs' = addrs
             /\ udpSent' = ForwardAudio(addrs, clients, source_id, target_id, audio_data)
     ELSE /\ client_audio_addrs' = client_audio_addrs
          /\ udpSent' = <<>>
  /\ udpIn' = [data |-> data, addr |-> addr]
  /\ heard' = IF ValidDatagram(data) /\ ParseSource(data) \in Ids
              THEN [heard EXCEPT ![ParseSource(data)] = Hear(@, addr)]
              ELSE heard
  /\ sent' = <<>>
  /\ last' = "relay"
  /\ UNCHANGED ended
  /\ UNCHANGED <<now, conn, clients, client_sockets, calls>>

\* datagrams that arrive at the relay socket
SourceIds == Ids \cup {<<>>}
Datagrams ==
  {ClientPacket(s, t, p) : s \in SourceIds, t \in Ids, p \in Payloads \ {<<>>}}
    \cup {ClientPacket(Alice, Bob, <<>>), <<97, 98>>}

\* the 'client_id' field of a message: an id, or NoneId when it has none
MsgIds == Ids \cup {NoneId}

\* the control-connection handlers
ControlStep ==
  \/ \E c \in Conns : Accept(c)
  \/ \E c \in Conns, id \in Ids, name \in Names, port \in Ports \cup {NoPort} :
       Register(c, id, name, port)
  \/ \E c \in Conns, mid \in MsgIds : GetClients(c, mid)
  \/ \E c \in Conns, mid \in MsgIds : Broadcast(c, mid)
  \/ \E c \in Conns, mid \in MsgIds, target \in Ids : Private(c, mid, target)
  \/ \E c \in Conns, mid \in MsgIds, target \in Ids : CallRequest(c, mid, target)
  \/ \E c \in Conns, mid \in MsgIds,
        call_id \in NamedCallIds, accepted \in BOOLEAN :
       CallAnswer(c, mid, call_id, accepted)
  \/ \E c \in Conns, mid \in MsgIds, call_id \in NamedCallIds :
       CallHangup(c, mid, call_id)
  \/ \E c \in Conns : Disconnect(c)

\* the relay loop
RelayStep == \E data \in Datagrams, addr \in AudioAddrs : Relay(data, addr)

\* the whole server: connection handlers, relay loop and clock
Next == (Tick \/ ControlStep \/ RelayStep) /\ UNCHANGED <<left, lvars, dvars, pvars, step, codec, cvars, pend, frame>>

Spec == Init /\ [][Next]_vars

\* the control plane alone: no datagram arrives at the relay socket
NextControl == (Tick \/ ControlStep) /\ UNCHANGED <<left, lvars, dvars, pvars, step, codec, cvars, pend, frame>>

SpecControl == Init /\ [][NextControl]_vars

\* the directory alone: connections register, list the directory and close
NextDirectory ==
  /\ \/ Tick /\ UNCHANGED left
     \/ \E c \in Conns : Accept(c) /\ UNCHANGED left
     \/ \E c \in Conns, id \in Ids, name \in Names \cup {NoName},
           port \in Ports \cup {NoPort} :
          Register(c, id, name, port) /\ left' = left \ {id}
     \/ \E c \in Conns, mid \in MsgIds : GetClients(c, mid) /\ UNCHANGED left
     \/ \E c \in Conns :
          /\ Disconnect(c)
          /\ left' = IF conn[c].client_id \in Ids
                     THEN left \cup {conn[c].client_id} ELSE left
  /\ UNCHANGED <<lvars, dvars, pvars, step, codec, cvars, pend, frame>>

SpecDirectory == Init /\ [][NextDirectory]_vars

\* call signalling alone, within one second of the clock: connections
\* register, place, answer and hang up calls and close
CallStep ==
  \/ \E c \in Conns : Accept(c)
  \/ \E c \in Conns, id \in Ids, name \in Names, port \in Ports :
       Register(c, id, name, port)
  \/ \E c \in Conns, mid \in MsgIds, target \in Ids : CallRequest(c, mid, target)
  \/ \E c \in Conns, mid \in MsgIds, call_id \in NamedCallIds, accepted \in BOOLEAN :
       CallAnswer(c, mid, call_id, accepted)
  \/ \E c \in Conns, mid \in MsgIds, call_id \in NamedCallIds :
       CallHangup(c, mid, call_id)
  \/ \E c \in Conns : Disconnect(c)

NextCalls == CallStep /\ UNCHANGED <<left, lvars, dvars, pvars, step, codec, cvars, pend, frame>>

SpecCalls == Init /\ [][NextCalls]_vars

\* the relay and the directory it reads: connections register, list the
\* directory (the touch every signalling message performs) and close
NextRelay ==
  /\ \/ \E c \in Conns : Accept(c)
     \/ \E c \in Conns, id \in Ids, name \in Names, port \in Ports \cup {NoPort} :
          Register(c, id, name, port)
     \/ \E c \in Conns, mid \in MsgIds : GetClients(c, mid)
     \/ \E c \in Conns : Disconnect(c)
     \/ RelayStep
  /\ UNCHANGED <<left, lvars, dvars, pvars, step, codec, cvars, pend, frame>>

SpecRelay == Init /\ [][NextRelay]_vars

\* =================================================================== claims
Online(cl, id) == id \in DOMAIN cl /\ cl[id].status = "online"

\* C2: a call_answer changes the status of a call record only if the call is
\* Requesting: an Active call never becomes Rejected, a Rejected call never
\* becomes Active.
C2_AnswerOnlyWhenRequesting ==
  [][last' = "call_answer" =>
       \A k \in DOMAIN calls :
         calls[k].status # "requesting" => k \in DOMAIN calls' /\ calls'[k] = calls[k]]_vars

\* C3: every handled call request gets an id that no record of the call table
\* has: it adds a record and overwrites none.
C3_RequestGetsFreshId ==
  [][last' = "call_request" =>
       /\ DOMAIN calls \subseteq DOMAIN calls'
       /\ \A k \in DOMAIN calls : calls'[k] = calls[k]
       /\ Cardinality(DOMAIN calls') = Cardinality(DOMAIN calls) + 1]_vars

\* C4: when the control connection of endpoint X closes, the cleanup removes
\* X's directory entry, X's learned audio address and every call record in
\* which X is caller or callee.
C4_DisconnectRemovesAll ==
  [][\A c \in Conns :
       Disconnect(c) /\ Truthy(conn[c].client_id) =>
         /\ conn[c].client_id \notin DOMAIN clients'
         /\ conn[c].client_id \notin DOMAIN client_audio_addrs'
         /\ \A k \in DOMAIN calls' :
              /\ calls'[k].caller # conn[c].client_id
              /\ calls'[k].callee # conn[c].client_id]_vars

\* C5: a rejected call is removed from the call table by the handler of the
\* rejecting call_answer: no record of the table is ever Rejected.
C5_RejectedCallRemoved ==
  \A k \in DOMAIN calls : calls[k].status # "rejected"

\* C6: a call_request whose callee is not registered online creates no call
\* record and sends nothing to anyone.
C6_OfflineCalleeNoOp ==
  [][\A c \in Conns, mid \in MsgIds, target \in Ids :
       CallRequest(c, mid, target) /\ ~Online(clients, target)
         => calls' = calls /\ sent' = <<>>]_vars

\* C7: a non-register control message from a registered endpoint leaves the
\* endpoint's display name and declared audio port in the directory as
\* registered.
NonRegisterOps ==
  {"get_clients", "broadcast", "private", "call_request", "call_answer", "call_hangup"}

C7_TouchKeepsNameAndPort ==
  [][\A c \in Conns :
       /\ last' \in NonRegisterOps
       /\ conn'[c].client_id \in DOMAIN clients
       /\ clients'[conn'[c].client_id] # clients[conn'[c].client_id]
       /\ "name" \in DOMAIN clients[conn'[c].client_id]
       => /\ "name" \in DOMAIN clients'[conn'[c].client_id]
          /\ clients'[conn'[c].client_id].name = clients[conn'[c].client_id].name
          /\ GetPort(clients'[conn'[c].client_id]) = GetPort(clients[conn'[c].client_id])]_vars

\* the end-to-end scenario of the specification, one message per step:
\* alice and bob register with an audio port, alice lists the directory and
\* calls bob, bob accepts, alice sends one audio frame; bob sends no datagram
ScenarioPayloads == {<<1, 2>>, <<1, 2, 3>>}
Registered(c, id) == conn[c].state = "open" /\ conn[c].client_id = id

E2EStep ==
  \/ step # "done" /\ Tick /\ UNCHANGED step
  \/ step = "register" /\ (\E c \in Conns : Accept(c)) /\ UNCHANGED step
  \/ /\ step = "register"
     /\ conn["c1"].client_id = NoneId
     /\ \E name \in Names \cup {NoName}, port \in Ports : Register("c1", Alice, name, port)
     /\ UNCHANGED step
  \/ /\ step = "register"
     /\ conn["c2"].client_id = NoneId
     /\ \E name \in Names \cup {NoName}, port \in Ports : Register("c2", Bob, name, port)
     /\ UNCHANGED step
  \/ /\ step = "register"
     /\ Registered("c1", Alice) /\ Registered("c2", Bob)
     /\ \E mid \in MsgIds : GetClients("c1", mid)
     /\ step' = "call"
  \/ /\ step = "call"
     /\ \E mid \in MsgIds : CallRequest("c1", mid, Bob)
     /\ step' = "answer"
  \/ /\ step = "answer"
     /\ \E mid \in MsgIds, call_id \in KnownCallIds :
          CallAnswer("c2", mid, call_id, TRUE)
     /\ step' = "frame"
  \/ /\ step = "frame"
     /\ \E addr \in AudioAddrs, p \in ScenarioPayloads :
          Relay(ClientPacket(Alice, Bob, p), addr)
     /\ step' = "done"

NextE2E == E2EStep /\ UNCHANGED <<left, lvars, dvars, pvars, codec, cvars, pend, frame>>

SpecE2E == Init /\ [][NextE2E]_vars

\* C1: at the end of the end-to-end scenario the relay has forwarded alice's
\* frame, with the same ids and payload, to bob's audio address (the address
\* of bob's control connection with the port bob declared).
C1_ScenarioFrameForwarded ==
  step = "done" =>
    /\ Len(udpSent) = 1
    /\ udpSent[1].to \in {<<PeerAddr("c2")[1], port>> : port \in Ports}
    /\ udpSent[1].packet = udpIn.data
    /\ ParseSource(udpSent[1].packet) = Alice
    /\ ParseTarget(udpSent[1].packet) = Bob

\* C8: a frame the relay forwards to an id X for which valid datagrams were
\* heard goes to the address of the latest such datagram, and not to the
\* address heard before it.
C8_LastWriterWins ==
  last = "relay" /\ udpSent # <<>> =>
    LET x == ParseTarget(udpSent[1].packet)
    IN x \in Ids /\ heard[x] # <<>> =>
         /\ udpSent[1].to = heard[x][Len(heard[x])]
         /\ Len(heard[x]) = 2 => udpSent[1].to # heard[x][1]

\* a frame from another endpoint was forwarded to an id whose address had
\* been learned from a1 and then from a2
C8_Witness ==
  /\ last = "relay"
  /\ Len(udpSent) = 1
  /\ ParseTarget(udpSent[1].packet) \in Ids
  /\ ParseSource(udpSent[1].packet) # ParseTarget(udpSent[1].packet)
  /\ Len(heard[ParseTarget(udpSent[1].packet)]) = 2
  /\ udpSent[1].to = heard[ParseTarget(udpSent[1].packet)][2]

MaxIdLen == 17      \* ids of 0..MaxIdLen bytes go through the codec
MaxPayload == 2     \* payloads of 0..MaxPayload bytes

\* an id of n bytes: consecutive letters from a first byte
MkId(first, n) == [i \in 1..n |-> first + ((i - 1) % 26)]
\* besides the letter ids, one id that ends in a NUL byte
CodecSources == {MkId(97, n) : n \in 0..MaxIdLen} \cup {<<97, 0>>}
CodecTargets == {MkId(65, n) : n \in 0..MaxIdLen} \cup {<<65, 0>>}
CodecPayloads == {[i \in 1..n |-> i] : n \in 0..MaxPayload}

InitCodec ==
  /\ now = 0
  /\ conn = [c \in Conns |-> [state |-> "closed", client_id |-> NoneId]]
  /\ clients = EmptyDict
  /\ client_sockets = EmptyDict
  /\ client_audio_addrs = EmptyDict
  /\ calls = EmptyDict
  /\ sent = <<>>
  /\ udpIn = NoDatagram
  /\ udpSent = <<>>
  /\ last = "init"
  /\ heard = [i \in Ids |-> <<>>]
  /\ ended = {}
  /\ left = {}
  /\ current_call = [e \in Ids |-> NoCall]
  /\ pending_calls = [e \in Ids |-> EmptyDict]
  /\ inbox = [c \in Conns |-> <<>>]
  /\ online_clients = [e \in Ids |-> EmptyDict]
  /\ clientOp = NoOp
  /\ pend = [c \in Conns |-> NoPend]
  /\ frame = NoFrame
  /\ locks = [l \in Locks |-> "free"]
  /\ thread = [t \in Threads |-> <<>>]
  /\ stalled = {}
  /\ audio = [e \in Ids |-> AudioOff(FALSE)]
  /\ settings = DefaultSettings
  /\ audio_history = <<>>
  /\ consecutive_silence = 0
  /\ sendIter = NoIteration
  /\ rx = [r \in RxThreads |-> OffRx]
  /\ arrived = <<>>
  /\ wire = <<>>
  /\ written = <<>>
  /\ decoder = IdleDecoder
  /\ detector = NoVad
  /\ step = "register"
  /\ codec \in [stage : {"input"}, source_id : CodecSources, target_id : CodecTargets,
                payload : CodecPayloads, packet : {<<>>}]

\* audio_send_loop builds the datagram of one processed chunk
ClientBuild ==
  /\ codec.stage = "input"
  /\ codec' = [codec EXCEPT !.stage = "sent",
                            !.packet = ClientPacket(codec.source_id, codec.target_id,
                                                    codec.payload)]

\* audio_relay_thread parses the datagram and forward_audio rebuilds it
RelayRebuild ==
  /\ codec.stage = "sent"
  /\ codec' = IF ValidDatagram(codec.packet)
              THEN [codec EXCEPT !.stage = "relayed",
                                 !.packet = BuildPacket(ParseSource(codec.packet),
                                                        ParseTarget(codec.packet),
                                                        ParsePayload(codec.packet))]
              ELSE [codec EXCEPT !.stage = "dropped"]

NextCodec ==
  /\ ClientBuild \/ RelayRebuild
  /\ UNCHANGED <<now, conn, clients, client_sockets, client_audio_addrs, calls,
                 sent, udpIn, udpSent, last, heard, ended, left, lvars, dvars, pvars, step, cvars, pend,
                 frame>>

SpecCodec == InitCodec /\ [][NextCodec]_vars

\* the first n bytes of an id (the whole id if it is shorter)
Truncated(id, n) == SubSeq(id, 1, IF Len(id) < n THEN Len(id) ELSE n)

\* C10: a datagram built by the client or rebuilt by the relay has a header
\* of exactly 32 bytes holding the ids truncated to 16 bytes: the payload
\* starts at offset 32 and the parse returns the (truncated) source and
\* target, up to the NUL padding.
C10_HeaderIs32Bytes ==
  codec.stage \in {"sent", "relayed"} =>
    /\ Len(codec.packet) = HeaderLen + Len(codec.payload)
    /\ ParsePayload(codec.packet) = codec.payload
    /\ ParseSource(codec.packet) = RStrip(Truncated(codec.source_id, IdField))
    /\ ParseTarget(codec.packet) = RStrip(Truncated(codec.target_id, IdField))

\* the ids of the frame in the codec fit their fields
FitsField(id) == Len(id) <= IdField
NoTrailingNul(id) == id = <<>> \/ id[Len(id)] # 0

\* the relay parses the datagram the client built to (A, B, P)
RelayRoundTrip ==
  /\ ValidDatagram(codec.packet)
  /\ ParseSource(codec.packet) = codec.source_id
  /\ ParseTarget(codec.packet) = codec.target_id
  /\ ParsePayload(codec.packet) = codec.payload

\* the receiving client parses the datagram the relay rebuilt to (A, B, P)
ClientRoundTrip ==
  /\ ClientAccepts(codec.packet)
  /\ ClientSource(codec.packet) = codec.source_id
  /\ ClientTarget(codec.packet) = codec.target_id
  /\ ClientPayload(codec.packet) = codec.payload

\* C11 as stated: for all ids A, B of at most 16 bytes and every payload P,
\* the empty one included, the datagram built from (A, B, P) is parsed back
\* to exactly (A, B, P) by the relay, which forwards it, and by the
\* receiving client.
C11_RoundTripAnyPayload ==
  FitsField(codec.source_id) /\ FitsField(codec.target_id) =>
    /\ codec.stage = "sent" => RelayRoundTrip
    /\ codec.stage # "dropped"
    /\ codec.stage = "relayed" => ClientRoundTrip

\* C11 amended: for all ids A, B of at most 16 bytes that do not end in a
\* NUL byte and every non-empty payload P, the datagram built from (A, B, P)
\* is parsed back to exactly (A, B, P) by the relay and by the receiving
\* client.
C11_RoundTrip ==
  /\ FitsField(codec.source_id) /\ FitsField(codec.target_id)
  /\ NoTrailingNul(codec.source_id) /\ NoTrailingNul(codec.target_id)
  /\ codec.payload # <<>>
  => /\ codec.stage = "sent" => RelayRoundTrip
     /\ codec.stage # "dropped"
     /\ codec.stage = "relayed" => ClientRoundTrip

\* a frame with two 16-byte ids and a payload went through relay and client
C11_Witness ==
  /\ codec.stage = "relayed"
  /\ Len(codec.source_id) = IdField /\ Len(codec.target_id) = IdField
  /\ codec.payload # <<>>
  /\ ClientRoundTrip

\* C12: a datagram of 32 bytes or fewer is discarded with no effect: the
\* learned addresses (that of the claimed source id included) stay as they
\* are, nothing is forwarded and no other table changes.
C12_ShortDatagramDiscarded ==
  [][last' = "relay" /\ Len(udpIn'.data) <= HeaderLen =>
       /\ client_audio_addrs' = client_audio_addrs
       /\ udpSent' = <<>>
       /\ sent' = <<>>
       /\ UNCHANGED <<clients, client_sockets, calls, conn>>]_vars

\* a 32-byte datagram claiming an id arrived from an address other than the
\* one learned for that id, for a target that has a learned address
C12_Witness ==
  /\ last = "relay"
  /\ Len(udpIn.data) = HeaderLen
  /\ RStrip(Slice(udpIn.data, 0, IdField)) \in DOMAIN client_audio_addrs
  /\ client_audio_addrs[RStrip(Slice(udpIn.data, 0, IdField))] # udpIn.addr
  /\ RStrip(Slice(udpIn.data, IdField, HeaderLen)) \in DOMAIN client_audio_addrs
  /\ udpSent = <<>>

\* C13: handling a call_answer for a known call (placed by a registered
\* endpoint) sends exactly one message: a call_answer notification to the
\* connection of the call's caller, with the same call_id and accepted value
\* and from = the answering endpoint; no other connection gets a message.
C13_AnswerNotifiesCaller ==
  [][\A c \in Conns, mid \in MsgIds, call_id \in KnownCallIds, accepted \in BOOLEAN :
       CallAnswer(c, mid, call_id, accepted) /\ calls[call_id].caller \in Ids =>
         /\ Len(sent') = 1
         /\ calls[call_id].caller \in DOMAIN clients'
         /\ sent'[1].to = clients'[calls[call_id].caller].socket
         /\ sent'[1].msg = [type |-> "call_answer", call_id |-> call_id,
                            accepted |-> accepted, from |-> MsgClientId(c, mid)]]_vars

\* the participant of a call record other than id
OtherParticipant(call, id) == IF id = call.caller THEN call.callee ELSE call.caller

\* C14: when the caller or the callee of a known call between two endpoints
\* hangs up, the server sends exactly one message, a call_hangup notification to the connection of
\* the other participant and not to the sender, and deletes the call record.
C14_HangupNotifiesOther ==
  [][\A c \in Conns, mid \in MsgIds, call_id \in KnownCallIds :
       /\ CallHangup(c, mid, call_id)
       /\ MsgClientId(c, mid) \in Ids
       /\ MsgClientId(c, mid) \in {calls[call_id].caller, calls[call_id].callee}
       /\ calls[call_id].caller # calls[call_id].callee
       => /\ Len(sent') = 1
          /\ sent'[1].to # c
          /\ OtherParticipant(calls[call_id], MsgClientId(c, mid)) \in DOMAIN clients'
          /\ sent'[1].to =
               clients'[OtherParticipant(calls[call_id], MsgClientId(c, mid))].socket
          /\ sent'[1].msg = [type |-> "call_hangup", call_id |-> call_id,
                             from |-> MsgClientId(c, mid)]
          /\ call_id \notin DOMAIN calls']_vars

\* C15: a call_hangup or a call_answer that names a call id which a hangup
\* has already ended is a no-op: the call table is unchanged and no
\* notification is sent to any endpoint.
C15_EndedCallIgnored ==
  [][\A c \in Conns, mid \in MsgIds, call_id \in ended :
       \/ CallHangup(c, mid, call_id)
       \/ \E accepted \in BOOLEAN : CallAnswer(c, mid, call_id, accepted)
       => calls' = calls /\ sent' = <<>>]_vars

\* the endpoints taking part in a call record
Participants(call) == {call.caller, call.callee}

\* C16: no endpoint is a participant of two call records that are Active at
\* the same time.
C16_OneActiveCallPerEndpoint ==
  \A k1, k2 \in DOMAIN calls :
    /\ k1 # k2
    /\ calls[k1].status = "active"
    /\ calls[k2].status = "active"
    => Participants(calls[k1]) \cap Participants(calls[k2]) = {}

\* ------------------------------------------------------------ the clients
\* Each endpoint runs one client program on its own control connection, and
\* the run stays within one second of the server's clock.  A
\* message the client sends is handled by the server in the same step; what
\* the server writes back waits in the connection's inbox until the client's
\* receive thread reads it.
MaxInbox == 1       \* at most this many unread messages per connection

ConnOf(e) == IF e = Alice THEN "c1" ELSE "c2"

\* the messages of one handler appended to the inboxes of their connections
RECURSIVE Enqueue(_, _)
Enqueue(box, msgs) ==
  IF msgs = <<>> THEN box
  ELSE Enqueue([box EXCEPT ![Head(msgs).to] = Append(@, Head(msgs).msg)], Tail(msgs))

InboxFits(box) == \A c \in Conns : Len(box[c]) <= MaxInbox

\* mutant of InCall: the client never considers itself in a call
InCall_Never(cc) == FALSE

\* "if self.current_call:"
InCall(cc) == cc # NoCall

\* connect(): the TCP connection is accepted by the server
ClientConnect(e) ==
  /\ Accept(ConnOf(e))
  /\ clientOp' = [op |-> "connect", who |-> e, ret |-> TRUE]
  /\ UNCHANGED <<current_call, pending_calls, inbox, online_clients, audio>>

\* connect(): the register message
ClientRegister(e, name, port) ==
  /\ conn[ConnOf(e)].client_id = NoneId
  /\ Register(ConnOf(e), e, name, port)
  /\ inbox' = Enqueue(inbox, sent')
  /\ InboxFits(inbox')
  /\ clientOp' = [op |-> "register", who |-> e, ret |-> TRUE]
  /\ UNCHANGED <<current_call, pending_calls, online_clients, audio>>

\* request_client_list(): the get_clients message, to which send_message adds
\* the client's id
RequestClientList(e) ==
  /\ Registered(ConnOf(e), e)
  /\ GetClients(ConnOf(e), e)
  /\ inbox' = Enqueue(inbox, sent')
  /\ InboxFits(inbox')
  /\ clientOp' = [op |-> "request_client_list", who |-> e, ret |-> TRUE]
  /\ UNCHANGED <<current_call, pending_calls, online_clients, audio>>

\* the client's control connection closes; what the server wrote to it and it
\* has not read is lost
ClientClose(e) ==
  /\ Disconnect(ConnOf(e))
  /\ inbox' = [inbox EXCEPT ![ConnOf(e)] = <<>>]
  /\ clientOp' = [op |-> "close", who |-> e, ret |-> TRUE]
  /\ UNCHANGED <<current_call, pending_calls, online_clients, audio>>

MaxStreams == 2     \* at most this many stream pairs and loop pairs per client

\* the audio threads and streams of a client stay within MaxStreams
StartAllowed(a) ==
  ~a.available \/
    (a.send_loops < MaxStreams /\ a.receive_loops < MaxStreams /\ a.orphans < MaxStreams - 1)

\* start_audio_streams: opens an input and an output stream, stores them in
\* self.audio_input and self.audio_output (the streams these attributes held
\* stay open) and starts the two loop threads
StartAudioStreams(a) ==
  IF ~a.available THEN a
  ELSE [a EXCEPT !.orphans = IF a.streams = "open" THEN @ + 1 ELSE @,
                 !.streams = "open",
                 !.send_loops = @ + 1,
                 !.receive_loops = @ + 1]

\* stop_audio_streams: closes the streams self.audio_input and
\* self.audio_output hold and sets both to None
StopAudioStreams(a) == [a EXCEPT !.streams = "none"]

\* "while self.current_call and self.audio_input:" (audio_send_loop) and
\* "while self.current_call and self.audio_output:" (audio_receive_loop)
LoopGoesOn(e) == InCall(current_call[e]) /\ audio[e].streams = "open"

\* an audio_send_loop thread evaluates its loop condition and returns
SendLoopExit(e) ==
  /\ audio[e].send_loops > 0
  /\ ~LoopGoesOn(e)
  /\ audio' = [audio EXCEPT ![e].send_loops = @ - 1]
  /\ UNCHANGED svars
  /\ UNCHANGED <<current_call, pending_calls, inbox, online_clients, clientOp>>

\* an audio_receive_loop thread evaluates its loop condition and returns
ReceiveLoopExit(e) ==
  /\ audio[e].receive_loops > 0
  /\ ~LoopGoesOn(e)
  /\ audio' = [audio EXCEPT ![e].receive_loops = @ - 1]
  /\ UNCHANGED svars
  /\ UNCHANGED <<current_call, pending_calls, inbox, online_clients, clientOp>>

\* make_call(target_id)
MakeCall(e, target) ==
  /\ Registered(ConnOf(e), e)
  /\ IF InCall(current_call[e])
     THEN /\ clientOp' = [op |-> "make_call", who |-> e, ret |-> FALSE]
          /\ UNCHANGED svars
          /\ UNCHANGED inbox
     ELSE /\ CallRequest(ConnOf(e), e, target)
          /\ inbox' = Enqueue(inbox, sent')
          /\ InboxFits(inbox')
          /\ clientOp' = [op |-> "make_call", who |-> e, ret |-> TRUE]
  /\ UNCHANGED <<current_call, pending_calls, online_clients, audio>>

\* hangup_call()
HangupCall(e) ==
  /\ Registered(ConnOf(e), e)
  /\ IF ~InCall(current_call[e])
     THEN /\ clientOp' = [op |-> "hangup_call", who |-> e, ret |-> FALSE]
          /\ UNCHANGED svars
          /\ UNCHANGED <<inbox, current_call, audio>>
     ELSE /\ CallHangup(ConnOf(e), e, current_call[e].id)
          /\ current_call' = [current_call EXCEPT ![e] = NoCall]
          /\ audio' = [audio EXCEPT ![e] = StopAudioStreams(@)]
          /\ inbox' = Enqueue(inbox, sent')
          /\ InboxFits(inbox')
          /\ clientOp' = [op |-> "hangup_call", who |-> e, ret |-> TRUE]
  /\ UNCHANGED <<pending_calls, online_clients>>

\* accept_call(call_id), run by the thread show_call_options starts
AcceptCall(e, call_id) ==
  /\ Registered(ConnOf(e), e)
  /\ call_id \in DOMAIN pending_calls[e]
  /\ CallAnswer(ConnOf(e), e, call_id, TRUE)
  /\ current_call' = [current_call EXCEPT ![e] =
                        [id |-> call_id, peer |-> pending_calls[e][call_id],
                         status |-> "active"]]
  /\ pending_calls' = [pending_calls EXCEPT ![e] = Del(@, call_id)]
  /\ inbox' = Enqueue(inbox, sent')
  /\ InboxFits(inbox')
  /\ StartAllowed(audio[e])
  /\ audio' = [audio EXCEPT ![e] = StartAudioStreams(@)]
  /\ clientOp' = [op |-> "accept_call", who |-> e, ret |-> TRUE]
  /\ UNCHANGED online_clients

\* mutant of HandleClientList: the client's own entry is cached too
HandleClientList_KeepSelf(e, message) ==
  [i \in {cl.id : cl \in message.clients} |->
     CHOOSE cl \in message.clients : cl.id = i]

\* handle_client_list: the cache is rebuilt from the response, leaving out
\* the entry with the client's own id
HandleClientList(e, message) ==
  [i \in {cl.id : cl \in message.clients} \ {e} |->
     CHOOSE cl \in message.clients : cl.id = i]

\* message_receive_thread + handle_server_message on the next unread message
ReceiveMessage(e) ==
  LET c == ConnOf(e)
      m == Head(inbox[c])
      rest == [inbox EXCEPT ![c] = Tail(@)]
  IN /\ inbox[c] # <<>>
     /\ CASE m.type = "register_response" ->
               \* handle_register_response: request_client_list()
               /\ GetClients(c, e)
               /\ inbox' = Enqueue(rest, sent')
               /\ InboxFits(inbox')
               /\ UNCHANGED <<current_call, pending_calls, online_clients, audio>>
          [] m.type = "client_list" ->
               /\ online_clients' = [online_clients EXCEPT ![e] = HandleClientList(e, m)]
               /\ inbox' = rest
               /\ UNCHANGED svars
               /\ UNCHANGED <<current_call, pending_calls, audio>>
          [] m.type = "call_request" ->
               \* handle_call_request
               /\ pending_calls' = [pending_calls EXCEPT ![e] = Put(@, m.call_id, m.from)]
               /\ inbox' = rest
               /\ UNCHANGED svars
               /\ UNCHANGED <<current_call, online_clients, audio>>
          [] m.type = "call_answer" ->
               \* handle_call_answer
               /\ current_call' = IF m.accepted
                                  THEN [current_call EXCEPT ![e] =
                                          [id |-> m.call_id, peer |-> m.from,
                                           status |-> "active"]]
                                  ELSE current_call
               /\ m.accepted => StartAllowed(audio[e])
               /\ audio' = IF m.accepted
                           THEN [audio EXCEPT ![e] = StartAudioStreams(@)]
                           ELSE audio
               /\ inbox' = rest
               /\ UNCHANGED svars
               /\ UNCHANGED <<pending_calls, online_clients>>
          [] m.type = "call_hangup" ->
               \* handle_call_hangup
               /\ current_call' = [current_call EXCEPT ![e] = NoCall]
               /\ audio' = [audio EXCEPT ![e] = StopAudioStreams(@)]
               /\ inbox' = rest
               /\ UNCHANGED svars
               /\ UNCHANGED <<pending_calls, online_clients>>
          [] OTHER ->
               \* the message types without call state
               /\ inbox' = rest
               /\ UNCHANGED svars
               /\ UNCHANGED <<current_call, pending_calls, online_clients, audio>>
     /\ clientOp' = [op |-> "receive", who |-> e, ret |-> TRUE]

ClientStep ==
  \/ \E e \in Ids : ClientConnect(e)
  \/ \E e \in Ids, name \in Names, port \in Ports : ClientRegister(e, name, port)
  \/ \E e \in Ids : \E target \in Ids \ {e} : MakeCall(e, target)
  \/ \E e \in Ids : HangupCall(e)
  \/ \E e \in Ids : \E call_id \in DOMAIN pending_calls[e] : AcceptCall(e, call_id)
  \/ \E e \in Ids : ReceiveMessage(e)

NextClient == ClientStep /\ UNCHANGED <<left, lvars, dvars, pvars, step, codec, pend, frame>>

SpecClient == Init /\ [][NextClient]_vars

\* A client with audio devices: a call starts its streams and its two audio
\* loops, which end on their own after the call.
NextAudio ==
  /\ \/ ClientStep
     \/ \E e \in Ids : SendLoopExit(e)
     \/ \E e \in Ids : ReceiveLoopExit(e)
  /\ UNCHANGED <<left, lvars, dvars, pvars, step, codec, pend, frame>>

SpecAudio == InitAudio /\ [][NextAudio]_vars

\* the scheduler runs every loop thread that can return
SpecAudioFair ==
  /\ SpecAudio
  /\ \A e \in Ids : WF_audio(SendLoopExit(e)) /\ WF_audio(ReceiveLoopExit(e))

\* The clients connect, register, list the directory and leave; no calls.
ListingStep ==
  \/ \E e \in Ids : ClientConnect(e)
  \/ \E e \in Ids, name \in Names, port \in Ports : ClientRegister(e, name, port)
  \/ \E e \in Ids : RequestClientList(e)
  \/ \E e \in Ids : ReceiveMessage(e)
  \/ \E e \in Ids : ClientClose(e)

NextListing == ListingStep /\ UNCHANGED <<left, lvars, dvars, pvars, step, codec, pend, frame>>

SpecListing == Init /\ [][NextListing]_vars

\* C17: make_call invoked on a client that has a current call returns failure,
\* sends nothing to the server (no handler runs, no table changes) and leaves
\* current_call as it is.
C17_MakeCallRefusedInCall ==
  [][\A e \in Ids, target \in Ids :
       MakeCall(e, target) /\ current_call[e] # NoCall =>
         /\ clientOp'.ret = FALSE
         /\ UNCHANGED svars
         /\ UNCHANGED <<current_call, pending_calls, inbox, online_clients, audio>>]_vars

\* make_call was refused on a client whose current call is active
C17_Witness ==
  /\ clientOp.op = "make_call"
  /\ clientOp.ret = FALSE
  /\ current_call[clientOp.who].status = "active"

\* some open control connection speaks for id
Connected(id) == \E c \in Conns : conn[c].state = "open" /\ conn[c].client_id = id

StoreEntry_CopyBack(table, seen, id, entry) == Put(seen, id, entry)

\* "with self.clients_lock: self.clients[client_id] = {...}": the entry goes
\* into the shared table, whatever the table was when the handler last saw it
StoreEntry(table, seen, id, entry) == Put(table, id, entry)

InFlight(c) == pend[c].stage = "touched"

\* first section: handle_message_client writes the per-message entry
RegisterTouch(c, id, name, port) ==
  /\ conn[c].state = "open"
  /\ conn[c].client_id = NoneId
  /\ pend[c].stage = "idle"
  /\ \A o \in Conns \ {c} : pend[o].id # id
  /\ conn' = [conn EXCEPT ![c].client_id = id]
  /\ clients' = StoreEntry(clients, clients, id, TouchEntry(c))
  /\ client_sockets' = Put(client_sockets, id, c)
  /\ pend' = [o \in Conns |->
               IF o = c
               THEN [stage |-> "touched", id |-> id, name |-> name, port |-> port,
                     seen |-> clients', raced |-> \E x \in Conns \ {c} : InFlight(x)]
               ELSE IF InFlight(o) THEN [pend[o] EXCEPT !.raced = TRUE]
               ELSE pend[o]]
  /\ sent' = <<>>
  /\ udpIn' = NoDatagram
  /\ udpSent' = <<>>
  /\ last' = "touch"
  /\ UNCHANGED <<now, client_audio_addrs, calls, heard, ended>>

\* second section: handle_client_register writes the entry and answers
RegisterWrite(c) ==
  /\ InFlight(c)
  /\ clients' = StoreEntry(clients, pend[c].seen, pend[c].id,
                           RegisterEntry(c, pend[c].id, pend[c].name, pend[c].port))
  /\ client_sockets' = Put(client_sockets, pend[c].id, c)
  /\ pend' = [pend EXCEPT ![c].stage = "done", ![c].seen = EmptyDict]
  /\ sent' = Deliver(c, [type |-> "register_response", status |-> "success",
                         client_id |-> pend[c].id, server_time |-> now])
  /\ udpIn' = NoDatagram
  /\ udpSent' = <<>>
  /\ last' = "register"
  /\ UNCHANGED <<now, conn, client_audio_addrs, calls, heard, ended>>

NextThreads ==
  /\ \/ Tick /\ UNCHANGED pend
     \/ \E c \in Conns : Accept(c) /\ UNCHANGED pend
     \/ \E c \in Conns, id \in Ids, name \in Names \cup {NoName},
           port \in Ports \cup {NoPort} : RegisterTouch(c, id, name, port)
     \/ \E c \in Conns : RegisterWrite(c)
  /\ UNCHANGED <<left, lvars, dvars, pvars, step, codec, cvars, frame>>

SpecThreads == Init /\ [][NextThreads]_vars

\* C19: registrations for distinct ids handled concurrently by different
\* connection threads lose no entry: in every interleaving, the id of every
\* handler that has started is in the directory with its own socket, and
\* the entry of every handler that has finished is the registered one.
C19_ConcurrentRegistersKeepAll ==
  \A c \in Conns :
    pend[c].stage # "idle" =>
      /\ pend[c].id \in DOMAIN clients
      /\ clients[pend[c].id].socket = c
      /\ pend[c].stage = "done" =>
           clients[pend[c].id] =
             [RegisterEntry(c, pend[c].id, pend[c].name, pend[c].port)
                EXCEPT !.last_seen = clients[pend[c].id].last_seen]

\* both connections have registered, each while the other's handler was
\* between its two sections, and both ids are in the directory
C19_Witness ==
  /\ \A c \in Conns : pend[c].stage = "done" /\ pend[c].raced
  /\ {pend[c].id : c \in Conns} = Ids
  /\ DOMAIN clients = Ids

\* ------------------------------------------------------- control frames
\* A control message travels as a 4-byte length prefix and a JSON body.
FrameCap == 1048576                      \* 1024 * 1024
FrameLens == {64, FrameCap - 1, FrameCap, FrameCap + 1, 2 * FrameCap}

\* mutant of Oversized: a frame of exactly the cap is refused too
Oversized_AtCap(msg_length) == msg_length >= FrameCap

\* "if msg_length > 1024 * 1024: break"
Oversized(msg_length) == msg_length > FrameCap

\* the messages that arrive in the frames of this specification
FrameMessages ==
  [type : {"register"}, client_id : Ids, client_name : Names, audio_port : Ports]
    \cup [type : {"get_clients"}, client_id : MsgIds, client_name : {NoName},
          audio_port : {NoPort}]

\* A body is modelled by its first bytes. "{" opens an object, whose members
\* are the message m of the frame; the other bodies of this specification:
\* "x" (text that is no JSON), 0xFF (no UTF-8), 0xC3 0xA9 x (UTF-8 text that
\* is no JSON) and "[]" (JSON, but no object).
ObjectBody == <<123>>
FrameBodies == {ObjectBody, <<120>>, <<255>>, <<195, 169, 120>>, <<91, 93>>}

\* bytes.decode('utf-8') accepts ASCII and well-formed two-byte sequences
\* (longer sequences do not occur in FrameBodies)
RECURSIVE Utf8Valid(_)
Utf8Valid(data) ==
  IF data = <<>> THEN TRUE
  ELSE IF data[1] < 128 THEN Utf8Valid(Tail(data))
  ELSE /\ data[1] \in 194..223
       /\ Len(data) >= 2
       /\ data[2] \in 128..191
       /\ Utf8Valid(Tail(Tail(data)))

\* "message = json.loads(data.decode('utf-8')); message.get(...)": what the
\* three calls do with a body
ParseBody(data) ==
  IF ~Utf8Valid(data) THEN "UnicodeDecodeError"
  ELSE IF data = ObjectBody THEN "object"
  ELSE IF data = <<91, 93>> THEN "AttributeError"
  ELSE "JSONDecodeError"

\* "except json.JSONDecodeError": the error is logged and the loop reads on
DiscardBody(c) ==
  /\ conn[c].state = "open"
  /\ sent' = <<>>
  /\ udpIn' = NoDatagram
  /\ udpSent' = <<>>
  /\ last' = "json_error"
  /\ UNCHANGED <<now, conn, clients, client_sockets, client_audio_addrs, calls,
                 heard, ended>>

\* one iteration of the read loop of handle_message_client: the length
\* prefix, then either the end of the connection or the body and its handler.
\* Any exception other than JSONDecodeError leaves the loop through
\* "except Exception" and the finally block.
ReceiveFrame(c, msg_length, data, m) ==
  /\ conn[c].state = "open"
  /\ frame' = [conn |-> c, client_id |-> conn[c].client_id, length |-> msg_length,
               body |-> IF Oversized(msg_length) THEN <<>> ELSE data]
  /\ IF Oversized(msg_length) THEN Disconnect(c)
     ELSE IF ParseBody(data) = "JSONDecodeError" THEN DiscardBody(c)
     ELSE IF ParseBody(data) # "object" THEN Disconnect(c)
     ELSE IF m.type = "register"
     THEN Register(c, m.client_id, m.client_name, m.audio_port)
     ELSE GetClients(c, m.client_id)

NextFrames ==
  /\ \/ Tick /\ UNCHANGED frame
     \/ \E c \in Conns : Accept(c) /\ UNCHANGED frame
     \/ \E c \in Conns, msg_length \in FrameLens, data \in FrameBodies,
           m \in FrameMessages :
          ReceiveFrame(c, msg_length, data, m)
  /\ UNCHANGED <<left, lvars, dvars, pvars, step, codec, cvars, pend>>

SpecFrames == Init /\ [][NextFrames]_vars

\* C20: a control frame whose length prefix exceeds 1 MiB ends its connection
\* and removes the endpoint of that connection from the directory; a frame of
\* 1 MiB or less is accepted: its body is read and, when the body is a JSON
\* object, the connection stays open and the handler of its message runs (it
\* records the sender and answers on the connection).
\* Stated of the state right after the frame was read.
C20_FrameCap ==
  frame # NoFrame /\ last \notin {"tick", "accept"} =>
    IF frame.length > FrameCap
    THEN /\ conn[frame.conn].state = "closed"
         /\ last = "disconnect"
         /\ frame.body = <<>>
         /\ frame.client_id \notin DOMAIN clients
         /\ frame.client_id \notin DOMAIN client_sockets
    ELSE /\ frame.body \in FrameBodies
         /\ frame.body = ObjectBody =>
              /\ conn[frame.conn].state = "open"
              /\ last \in {"register", "get_clients"}
              /\ Len(sent) = 1 /\ sent[1].to = frame.conn

\* the frame read last was refused
FrameRefused == frame.length > FrameCap /\ last = "disconnect"

\* a registered endpoint was removed by a frame of one byte more than 1 MiB
C20_Witness ==
  /\ FrameRefused
  /\ frame.length = FrameCap + 1
  /\ frame.client_id \in Ids
  /\ frame.client_id \notin DOMAIN clients

\* C21: a complete control frame whose body is not valid JSON is discarded:
\* the step that reads it changes neither the directory, the socket table,
\* the call table nor the learned addresses, leaves the connection open with
\* the id its handler held, and writes nothing.
C21_MalformedBodyDiscarded ==
  [][(/\ frame' # frame
      /\ ~Oversized(frame'.length)
      /\ ParseBody(frame'.body) \in {"JSONDecodeError", "UnicodeDecodeError"})
     => /\ UNCHANGED <<clients, client_sockets, client_audio_addrs, calls>>
        /\ conn' = conn
        /\ conn[frame'.conn].state = "open"
        /\ sent' = <<>>]_vars

\* the ids a client_list response lists
ListedIds(message) == {cl.id : cl \in message.clients}

\* C22: after the client handles a client_list response, its online-peer
\* cache holds exactly the entries of the response other than its own (every
\* listed id except its own, never its own, each with the listed entry); a
\* response lists the whole directory, so with both clients registered A's
\* cache after its listing is exactly {B}.
C22_CacheIsListingWithoutSelf ==
  [][\A e \in Ids :
       /\ (ReceiveMessage(e) /\ Head(inbox[ConnOf(e)]).type = "client_list") =>
            LET m == Head(inbox[ConnOf(e)])
            IN /\ DOMAIN online_clients'[e] = ListedIds(m) \ {e}
               /\ \A i \in DOMAIN online_clients'[e] : online_clients'[e][i] \in m.clients
               /\ ListedIds(m) = Ids => DOMAIN online_clients'[e] = Ids \ {e}
       /\ RequestClientList(e) =>
            /\ Len(sent') = 1
            /\ sent'[1].to = ConnOf(e)
            /\ ListedIds(sent'[1].msg) = DOMAIN clients'
            /\ e \in ListedIds(sent'[1].msg)]_vars

\* both clients are registered and each has handled a listing: alice's cache
\* is exactly {bob} and bob's is exactly {alice}
C22_Witness ==
  /\ clientOp.op = "receive"
  /\ DOMAIN clients = Ids
  /\ DOMAIN online_clients[Alice] = {Bob}
  /\ DOMAIN online_clients[Bob] = {Alice}

\* ------------------------------------------------------ locks and threads
\* Every handler is the sequence of its lock acquisitions, lock releases,
\* socket writes and accesses to the learned-address table, in the order of
\* the source; the threads interleave between instructions.
Ins(k, a) == [k |-> k, a |-> a]

IdOfConn(c) == IF c = "c1" THEN Alice ELSE Bob
OtherConn(c) == IF c = "c1" THEN "c2" ELSE "c1"

\* "if client_id: with self.clients_lock: self.clients[client_id] = {...}"
TouchProgram ==
  <<Ins("acq", "clients_lock"), Ins("rel", "clients_lock")>>

\* "with self.clients_lock: if ... in self.clients: self.send_message(...)";
\* found: the peer to notify is in the directory
NotifyProgram(c, found) ==
  <<Ins("acq", "clients_lock")>>
    \o (IF found THEN <<Ins("send", OtherConn(c))>> ELSE <<>>)
    \o <<Ins("rel", "clients_lock")>>

\* handle_call_answer with the two locks taken in the other order
CallProgram_ClientsFirst(c, known, found) ==
  <<Ins("acq", "clients_lock")>>
    \o (IF known
        THEN <<Ins("acq", "calls_lock")>>
               \o (IF found THEN <<Ins("send", OtherConn(c))>> ELSE <<>>)
               \o <<Ins("rel", "calls_lock")>>
        ELSE <<>>)
    \o <<Ins("rel", "clients_lock")>>

\* "with self.calls_lock: if call_id in self.calls: ... with self.clients_lock:";
\* known: the call id is in the call table
CallProgram(c, known, found) ==
  <<Ins("acq", "calls_lock")>>
    \o (IF known THEN NotifyProgram(c, found) ELSE <<>>)
    \o <<Ins("rel", "calls_lock")>>

MessageTypes ==
  {"register", "broadcast", "call_request", "call_answer", "call_hangup",
   "join_room", "get_clients"}

\* what the handler thread of connection c runs for one message
HandlerProgram(type, c, known, found) ==
  TouchProgram \o
  CASE type = "register" ->
         <<Ins("acq", "clients_lock"), Ins("rel", "clients_lock"),
           Ins("send", c)>>
    [] type = "broadcast" -> NotifyProgram(c, found)
    [] type = "call_request" ->
         <<Ins("acq", "calls_lock"), Ins("rel", "calls_lock")>>
           \o NotifyProgram(c, found)
    [] type = "call_answer" -> CallProgram(c, known, found)
    [] type = "call_hangup" -> CallProgram(c, known, found)
    [] type = "join_room" ->
         <<Ins("acq", "rooms_lock"), Ins("rel", "rooms_lock")>>
    [] type = "get_clients" ->
         <<Ins("acq", "clients_lock"), Ins("rel", "clients_lock"),
           Ins("send", c)>>

\* get_server_status: the three locks one after the other
StatusProgram ==
  <<Ins("acq", "clients_lock"), Ins("rel", "clients_lock"),
    Ins("acq", "rooms_lock"), Ins("rel", "rooms_lock"),
    Ins("acq", "calls_lock"), Ins("rel", "calls_lock")>>

\* the finally block of handle_message_client
CleanupProgram(c) ==
  <<Ins("acq", "clients_lock"),
    Ins("del_addr", IdOfConn(c)),
    Ins("rel", "clients_lock")>>

\* audio_relay_thread on one valid datagram, up to the membership test of
\* forward_audio
RelayProgram(source_id, target_id, addr) ==
  <<Ins("write_addr", <<source_id, addr>>),
    Ins("test_addr", target_id)>>

\* forward_audio after "if target_id in self.client_audio_addrs"
ForwardProgram(target_id, present) ==
  IF present
  THEN <<Ins("lookup_addr", target_id), Ins("sendto", target_id)>>
  ELSE <<Ins("acq", "clients_lock"), Ins("rel", "clients_lock"),
         Ins("sendto", target_id)>>

Held(t) == {l \in Locks : locks[l] = t}
Idle(t) == thread[t] = <<>>
At(t, k) == thread[t] # <<>> /\ Head(thread[t]).k = k
Advance(t) == thread' = [thread EXCEPT ![t] = Tail(@)]

\* the handler thread of c reads a message (or the end of the connection)
StartHandler(c, type, known, found) ==
  /\ Idle(c)
  /\ thread' = [thread EXCEPT ![c] = HandlerProgram(type, c, known, found)]
  /\ UNCHANGED <<locks, stalled, client_audio_addrs>>

StartCleanup(c) ==
  /\ Idle(c)
  /\ thread' = [thread EXCEPT ![c] = CleanupProgram(c)]
  /\ UNCHANGED <<locks, stalled, client_audio_addrs>>

\* a 'status' command or a get_status request
StartStatus ==
  /\ Idle("status")
  /\ thread' = [thread EXCEPT !["status"] = StatusProgram]
  /\ UNCHANGED <<locks, stalled, client_audio_addrs>>

\* the address an endpoint's datagrams come from
PeerAudioAddr(id) == IF id = Alice THEN <<"10.0.0.1", 7002>> ELSE <<"10.0.0.2", 7001>>

\* the relay thread receives a valid datagram
StartRelay(source_id, target_id, addr) ==
  /\ Idle("relay")
  /\ thread' = [thread EXCEPT !["relay"] = RelayProgram(source_id, target_id, addr)]
  /\ UNCHANGED <<locks, stalled, client_audio_addrs>>

\* "with lock:" waits until the lock is free
Acquire(t) ==
  /\ At(t, "acq")
  /\ locks[Head(thread[t]).a] = "free"
  /\ locks' = [locks EXCEPT ![Head(thread[t]).a] = t]
  /\ Advance(t)
  /\ UNCHANGED <<stalled, client_audio_addrs>>

Release(t) ==
  /\ At(t, "rel")
  /\ locks' = [locks EXCEPT ![Head(thread[t]).a] = "free"]
  /\ Advance(t)
  /\ UNCHANGED <<stalled, client_audio_addrs>>

\* send_message: client_sock.send returns once the socket takes the bytes (a
\* dead peer raises, which send_message catches); on a socket whose peer does
\* not read it does not return
Send(t) ==
  /\ At(t, "send")
  /\ Head(thread[t]).a \notin stalled
  /\ Advance(t)
  /\ UNCHANGED <<locks, stalled, client_audio_addrs>>

\* "self.client_audio_addrs[source_id] = addr"
WriteAddr(t) ==
  /\ At(t, "write_addr")
  /\ client_audio_addrs' =
       LearnAddr(client_audio_addrs, Head(thread[t]).a[1], Head(thread[t]).a[2])
  /\ Advance(t)
  /\ UNCHANGED <<locks, stalled>>

\* "if target_id in self.client_audio_addrs:"
TestAddr(t) ==
  /\ At(t, "test_addr")
  /\ thread' = [thread EXCEPT ![t] =
                  ForwardProgram(Head(@).a, Head(@).a \in DOMAIN client_audio_addrs)]
  /\ UNCHANGED <<locks, stalled, client_audio_addrs>>

\* "target_audio_addr = self.client_audio_addrs[target_id]": a missing key
\* raises KeyError, which leaves forward_audio through its except clause
LookupAddr(t) ==
  /\ At(t, "lookup_addr")
  /\ thread' = [thread EXCEPT ![t] =
                  IF Head(@).a \in DOMAIN client_audio_addrs THEN Tail(@)
                  ELSE <<Ins("KeyError", Head(@).a)>>]
  /\ UNCHANGED <<locks, stalled, client_audio_addrs>>

\* "self.audio_socket.sendto(...)", or the except clause after a KeyError
FinishRelay(t) ==
  /\ At(t, "sendto") \/ At(t, "KeyError")
  /\ Advance(t)
  /\ UNCHANGED <<locks, stalled, client_audio_addrs>>

\* "if client_id in self.client_audio_addrs: del self.client_audio_addrs[client_id]"
DelAddr(t) ==
  /\ At(t, "del_addr")
  /\ client_audio_addrs' = CleanupAudioAddrs(Head(thread[t]).a)
  /\ Advance(t)
  /\ UNCHANGED <<locks, stalled>>

\* the peer of a connection stops reading, or reads again
Stall(c) ==
  /\ c \notin stalled
  /\ stalled' = stalled \cup {c}
  /\ UNCHANGED <<locks, thread, client_audio_addrs>>

Drain(c) ==
  /\ c \in stalled
  /\ stalled' = stalled \ {c}
  /\ UNCHANGED <<locks, thread, client_audio_addrs>>

NextLocks ==
  /\ \/ \E c \in Conns, type \in MessageTypes, known, found \in BOOLEAN :
          StartHandler(c, type, known, found)
     \/ \E c \in Conns : StartCleanup(c)
     \/ \E source_id, target_id \in Ids :
          StartRelay(source_id, target_id, PeerAudioAddr(source_id))
     \/ \E t \in Threads : Acquire(t)
     \/ \E t \in Threads : Release(t)
     \/ \E t \in Threads : Send(t)
     \/ \E t \in Threads : WriteAddr(t)
     \/ \E t \in Threads : TestAddr(t)
     \/ \E t \in Threads : LookupAddr(t)
     \/ \E t \in Threads : FinishRelay(t)
     \/ \E t \in Threads : DelAddr(t)
     \/ \E c \in Conns : Stall(c)
     \/ \E c \in Conns : Drain(c)
  /\ UNCHANGED <<now, conn, clients, client_sockets, calls, sent, udpIn, udpSent,
                 last, heard, ended, left, step, codec, cvars, pvars, dvars, pend, frame>>

SpecLocks == Init /\ [][NextLocks]_vars

\* C23: no server operation holds more than one of the table locks
\* (clients_lock, calls_lock, rooms_lock) at the same time.
C23_OneLockAtATime == \A t \in Threads : Cardinality(Held(t)) <= 1

\* thread t is inside a socket write that does not return
WritePending(t) == At(t, "send") /\ Head(thread[t]).a \in stalled

\* C24: while a handler's write to a peer that does not accept it is pending,
\* the handlers of other connections can still register, list clients and
\* signal calls: no other thread waits for a lock the writing handler holds.
C24_PendingWriteBlocksNobody ==
  \A t \in Threads :
    WritePending(t) =>
      \A u \in Threads \ {t} : At(u, "acq") => locks[Head(thread[u]).a] # t

\* the relay thread is about to write or read the learned-address table
RelayAtTable ==
  At("relay", "write_addr") \/ At("relay", "test_addr") \/ At("relay", "lookup_addr")

\* C25: the relay loop writes and reads the learned-address table only while
\* it holds clients_lock, so that the lookup following a successful membership
\* test always finds the address: a disconnect handler's removal cannot come
\* between the two.
C25_RelayUsesDirectoryLock ==
  /\ RelayAtTable => locks["clients_lock"] = "relay"
  /\ ~At("relay", "KeyError")

\* no audio loop of the client runs and every stream it opened is closed
AudioReleased(e) ==
  /\ audio[e].send_loops = 0
  /\ audio[e].receive_loops = 0
  /\ audio[e].streams = "none"
  /\ audio[e].orphans = 0

\* C26: after a call ended by a hangup from either side (hangup_call or a
\* received call_hangup both leave current_call empty), unless a new call
\* starts, the send loop and the receive loop eventually exit and the audio
\* input and output streams are closed.
C26_HangupStopsAudio ==
  \A e \in Ids :
    (current_call[e] = NoCall) ~> (current_call[e] # NoCall \/ AudioReleased(e))

\* ------------------------------------------------- client audio pipeline
\* A chunk is modelled with one 16-bit sample (two bytes, little endian) or
\* with a byte length that is not a whole number of samples; numpy is
\* importable (numpy_available is True).  The float32 arithmetic of the stages
\* is computed exactly and the conversion back to int16 truncates toward zero.

\* np.frombuffer(audio_data, dtype=np.int16) raises ValueError
Faults(audio_data) == Len(audio_data) % 2 # 0

\* np.frombuffer(audio_data, dtype=np.int16), one sample
Sample(audio_data) ==
  LET u == audio_data[1] + 256 * audio_data[2]
  IN  IF u >= 32768 THEN u - 65536 ELSE u

\* samples.astype(np.int16).tobytes(), one sample
ToBytes(v) ==
  LET u == IF v < 0 THEN v + 65536 ELSE v
  IN  <<u % 256, u \div 256>>

\* the float a / b converted by astype(np.int16)
Trunc(a, b) == IF a >= 0 THEN a \div b ELSE -((-a) \div b)

Abs(v) == IF v < 0 THEN -v ELSE v

\* np.clip(samples, -32767, 32767)
Clip(v) == IF v > 32767 THEN 32767 ELSE IF v < -32767 THEN -32767 ELSE v

\* (samples / 32768.0 * 32767).astype(np.int16)
Requantise(v) == Trunc(v * 32767, 32768)

\* the chunk after a stage function was called on it
Through(name, chunk, audio_data) ==
  [data |-> audio_data, stages |-> Append(chunk.stages, name)]

\* a stage that propagated its fault would hand no chunk on
Except_Raise(audio_data) == <<-1>>

\* "except Exception as e: return audio_data" of every stage
Except(audio_data) == audio_data

\* apply_noise_gate: rms < noise_gate_threshold (0.01) is |v| / 32768 < 0.01
ApplyNoiseGate(chunk) ==
  IF Faults(chunk.data)
  THEN Through("noise_gate", chunk, Except(chunk.data))
  ELSE LET v == Sample(chunk.data)
       IN  Through("noise_gate", chunk,
                   ToBytes(IF Abs(v) * 100 < 32768
                           THEN Trunc(v * 32767, 327680)
                           ELSE Requantise(v)))

\* apply_echo_cancellation decodes the input and the newest
\* echo_detection_window (3) frames of the history
EchoFaults(input_audio, history) ==
  LET check_frames == IF Len(history) < 3 THEN Len(history) ELSE 3
  IN  \/ Faults(input_audio)
      \/ \E i \in 0..(check_frames - 1) : Faults(history[Len(history) - i])

\* apply_echo_cancellation: with one sample per chunk np.std is 0, no
\* correlation score is collected and the samples are only requantised; a
\* frame of the history that cannot be decoded is a fault of the stage
ApplyEchoCancellation(chunk, reference_audio, history) ==
  IF reference_audio = <<>> \/ Len(history) = 0
  THEN Through("echo", chunk, chunk.data)
  ELSE IF EchoFaults(chunk.data, history)
  THEN Through("echo", chunk, Except(chunk.data))
  ELSE Through("echo", chunk, ToBytes(Clip(Requantise(Sample(chunk.data)))))

\* apply_auto_gain_control: gain = max(min(3000 / rms, 2.0), 0.5)
ApplyAutoGainControl(chunk) ==
  IF Faults(chunk.data)
  THEN Through("agc", chunk, Except(chunk.data))
  ELSE LET v == Sample(chunk.data)
           a == Abs(v)
           g == IF a = 0 THEN v
                ELSE IF a <= 1500 THEN 2 * v
                ELSE IF a >= 6000 THEN Trunc(v, 2)
                ELSE IF v > 0 THEN 3000 ELSE -3000
       IN  Through("agc", chunk, ToBytes(Clip(g)))

\* adjust_volume; volume in tenths
AdjustVolume(chunk, volume) ==
  IF volume = 10
  THEN Through("volume", chunk, chunk.data)
  ELSE IF Faults(chunk.data)
  THEN Through("volume", chunk, Except(chunk.data))
  ELSE Through("volume", chunk, ToBytes(Clip(Trunc(Sample(chunk.data) * volume, 10))))

\* process_input_audio lines 1043-1081: the echo stage runs when the history
\* holds two chunks and the newest is not empty, decodes and has an energy
\* above 0.0001; a chunk suppressed by more than 90 % is mixed with the old one
EchoBranch(chunk, s, history) ==
  IF ~(s.echo_cancellation /\ Len(history) >= 2)
  THEN chunk
  ELSE LET reference == history[Len(history)]
       IN  IF reference = <<>> \/ Faults(reference) THEN chunk
           ELSE IF ~(Abs(Sample(reference)) * 100 > 32768) THEN chunk
           ELSE LET processed == ApplyEchoCancellation(chunk, reference, history)
                IN  IF Faults(chunk.data) \/ Faults(processed.data) THEN processed
                    ELSE LET old == Sample(chunk.data)
                             new == Sample(processed.data)
                         IN  IF old # 0 /\ Abs(new) * 10 < Abs(old)
                             THEN [processed EXCEPT !.data =
                                     ToBytes(Clip(Trunc((7 * new + 3 * old) * 32767,
                                                        327680)))]
                             ELSE processed

\* process_input_audio
ProcessInputAudio(chunk, s, history) ==
  IF ~s.echo_cancellation /\ ~s.noise_suppression /\ ~s.auto_gain_control
  THEN AdjustVolume(chunk, s.input_volume)
  ELSE LET gated == IF s.noise_suppression THEN ApplyNoiseGate(chunk) ELSE chunk
           echoed == EchoBranch(gated, s, history)
           gained == IF s.auto_gain_control THEN ApplyAutoGainControl(echoed)
                     ELSE echoed
       IN  AdjustVolume(gained, s.input_volume)

\* audio_send_loop lines 1161-1179: a processed chunk with an energy below 10
\* is mixed with the captured one when that has an energy above 1000
Recover(processed, data) ==
  IF Faults(processed.data) \/ Faults(data) THEN processed
  ELSE LET p == Sample(processed.data)
           o == Sample(data)
       IN  IF p * p < 10 /\ o * o > 1000
           THEN [processed EXCEPT !.data = ToBytes(Trunc(7 * p + 3 * o, 10))]
           ELSE processed

\* ------------------------------------------------------- the send loop
MaxSilence == 4     \* consecutive_silence is counted up to this
GraceLimit == 3

\* what audio_input.read returns: silence, a weak, a strong, a loud and a
\* negative sample, and two buffers that are not a whole number of samples
CapturedChunks ==
  {<<0, 0>>, <<100, 0>>, <<232, 3>>, <<64, 31>>, <<24, 252>>, <<232>>, <<232, 3, 1>>}

\* what arrives from the peer behind the 32-byte header
ReceivedChunks == {<<100, 0>>, <<226, 4>>, <<226>>}

Raw(audio_data) == [data |-> audio_data, stages |-> <<>>]

\* self.audio_history.append(processed_data)
Appended(history, audio_data) == Append(history, audio_data)

\* if len(self.audio_history) > self.history_size: self.audio_history.pop(0)
Trimmed(history, history_size) ==
  IF Len(history) > history_size THEN Tail(history) ELSE history

\* process_output_audio run by one receive loop without interruption
ProcessOutputAudio(audio_data) ==
  LET processed_data == AdjustVolume(Raw(audio_data), settings.output_volume).data
  IN  /\ audio_history' =
           IF settings.echo_cancellation
           THEN Trimmed(Appended(audio_history, processed_data), settings.history_size)
           ELSE audio_history
      /\ UNCHANGED <<settings, consecutive_silence, sendIter, rx, arrived>>

\* one iteration of audio_send_loop during a call; has_voice is what
\* detect_voice_activity returns for the captured chunk (True when it faults)
SendIteration(data, has_voice) ==
  LET vad == settings.voice_activity_detection
      counted == IF vad /\ ~has_voice THEN consecutive_silence + 1
                 ELSE IF vad THEN 0 ELSE consecutive_silence
      transmit == ~vad \/ has_voice \/ counted < GraceLimit
  IN  /\ vad /\ ~has_voice => consecutive_silence < MaxSilence
      /\ Faults(data) \/ ~vad => has_voice
      /\ consecutive_silence' = counted
      /\ sendIter' =
           [raw |-> Raw(data), voice |-> has_voice,
            examined |-> IF vad THEN Raw(data) ELSE NoChunk,
            out |-> IF transmit
                    THEN Recover(ProcessInputAudio(Raw(data), settings, audio_history),
                                 data)
                    ELSE NoChunk,
            sent |-> transmit, ran |-> TRUE]
      /\ UNCHANGED <<settings, audio_history, rx, arrived>>

SettingsSet ==
  [echo_cancellation : BOOLEAN, noise_suppression : BOOLEAN,
   auto_gain_control : BOOLEAN, voice_activity_detection : BOOLEAN,
   input_volume : {7, 10}, output_volume : {8}, history_size : 1..MaxHistory]

InitSend ==
  /\ InitBase
  /\ audio = [e \in Ids |-> AudioOff(FALSE)]
  /\ settings \in SettingsSet

SendStep ==
  \/ \E data \in CapturedChunks, has_voice \in BOOLEAN : SendIteration(data, has_voice)
  \/ \E audio_data \in ReceivedChunks : ProcessOutputAudio(audio_data)

NextSend ==
  /\ SendStep
  /\ UNCHANGED <<now, conn, clients, client_sockets, client_audio_addrs, calls, sent,
                 udpIn, udpSent, last, heard, ended, left, lvars, dvars, step, codec, cvars,
                 pend, frame>>

SpecSend == InitSend /\ [][NextSend]_vars

\* the conditioning stages in the order of the send path
StageOrder == <<"noise_gate", "echo", "agc", "volume">>

Position(name) == CHOOSE i \in 1..Len(StageOrder) : StageOrder[i] = name

InStageOrder(stages) ==
  \A i, j \in 1..Len(stages) : i < j => Position(stages[i]) < Position(stages[j])

\* the chunk went through the enabled conditioning stages, in order, up to
\* the volume scale
Conditioned(chunk) ==
  /\ chunk.stages # <<>>
  /\ chunk.stages[Len(chunk.stages)] = "volume"
  /\ InStageOrder(chunk.stages)

\* the stage part of C27 alone
StagesInOrder == sendIter.sent => Conditioned(sendIter.out)

\* C27: on the send path the stages run in the order noise gate, echo
\* suppression, automatic gain control, volume scale, voice-activity gate: a
\* transmitted chunk went through the conditioning stages in that order, and
\* the chunk the voice-activity detector examined to gate the transmission is
\* the conditioned chunk, not the captured one.
C27_VoiceGateAfterConditioning ==
  sendIter.ran =>
    /\ sendIter.sent => Conditioned(sendIter.out)
    /\ settings.voice_activity_detection => Conditioned(sendIter.examined)

\* C28: with voice-activity detection enabled the send loop transmits a chunk
\* exactly when the detector reports voice or the chunk is one of the first 3
\* consecutive non-voice chunks, and a chunk reported as voice resets the
\* counter of non-voice chunks to zero.
C28_GraceOfThreeChunks ==
  (sendIter.ran /\ settings.voice_activity_detection) =>
    /\ sendIter.sent <=> (sendIter.voice \/ consecutive_silence <= 3)
    /\ sendIter.voice => consecutive_silence = 0

\* the gate as the loop applies it: the first two non-voice chunks pass
GraceOfTwoChunks ==
  (sendIter.ran /\ settings.voice_activity_detection) =>
    /\ sendIter.sent <=> (sendIter.voice \/ consecutive_silence <= 2)
    /\ sendIter.voice => consecutive_silence = 0

\* a string of bytes
IsBytes(audio_data) == \A i \in 1..Len(audio_data) : audio_data[i] \in 0..255

Volumes == {settings.input_volume, settings.output_volume, 10}

\* C30: every pipeline stage (noise gate, echo suppression, automatic gain
\* control, volume scale) fails open: on a chunk it faults on (a byte length
\* that is not a whole number of 16-bit samples, or for the echo stage a
\* history frame of such a length) it returns the input chunk byte for byte
\* and raises nothing, so that process_input_audio and process_output_audio
\* always return a chunk: what the send loop transmits and what the receive
\* path stores are strings of bytes, and a faulting captured chunk is
\* transmitted as captured.
C30_StagesFailOpen ==
  /\ \A data \in CapturedChunks :
       /\ Faults(data) =>
            /\ ApplyNoiseGate(Raw(data)).data = data
            /\ ApplyAutoGainControl(Raw(data)).data = data
            /\ \A volume \in Volumes : AdjustVolume(Raw(data), volume).data = data
       /\ (audio_history # <<>> /\ EchoFaults(data, audio_history)) =>
            ApplyEchoCancellation(Raw(data), audio_history[Len(audio_history)],
                                  audio_history).data = data
       /\ IsBytes(ProcessInputAudio(Raw(data), settings, audio_history).data)
  /\ \A audio_data \in ReceivedChunks :
       /\ IsBytes(AdjustVolume(Raw(audio_data), settings.output_volume).data)
       /\ Faults(audio_data) =>
            AdjustVolume(Raw(audio_data), settings.output_volume).data = audio_data
  /\ \A i \in 1..Len(audio_history) : IsBytes(audio_history[i])
  /\ sendIter.sent =>
       /\ IsBytes(sendIter.out.data)
       /\ Faults(sendIter.raw.data) => sendIter.out.data = sendIter.raw.data

\* a captured chunk of three bytes went through all four stages, the echo
\* stage included, and was transmitted as captured
C30_Witness ==
  /\ sendIter.sent
  /\ Faults(sendIter.raw.data)
  /\ sendIter.out.stages = StageOrder
  /\ sendIter.out.data = sendIter.raw.data
  /\ \E i \in 1..Len(audio_history) : Faults(audio_history[i])

\* ---------------------------------------------------- the receive loops
MaxChunks == 3      \* at most this many chunks arrive

\* start_audio_streams: the history is emptied (line 718) and one more
\* audio_receive_loop thread is started; a loop started earlier is still
\* alive when the client starts a call while it has one, or when its
\* recvfrom has not timed out since the last call ended
StartReceiveLoop(r) ==
  /\ rx[r].pc = "off"
  /\ rx' = [rx EXCEPT ![r] = [pc |-> "idle", chunk |-> NoChunk]]
  /\ audio_history' = <<>>
  /\ UNCHANGED <<settings, consecutive_silence, sendIter, arrived>>

\* audio_receive_loop: recvfrom returns a datagram, process_output_audio is
\* called and scales the volume
RxReceive(r, audio_data) ==
  LET processed_data == AdjustVolume(Raw(audio_data), settings.output_volume)
  IN  /\ rx[r].pc = "idle"
      /\ Len(arrived) < MaxChunks
      /\ arrived' = Append(arrived, processed_data.data)
      /\ rx' = [rx EXCEPT ![r] = IF settings.echo_cancellation
                                 THEN [pc |-> "append", chunk |-> processed_data]
                                 ELSE [pc |-> "idle", chunk |-> NoChunk]]
      /\ UNCHANGED <<settings, audio_history, consecutive_silence, sendIter>>

\* process_output_audio line 1106
RxAppend(r) ==
  /\ rx[r].pc = "append"
  /\ audio_history' = Appended(audio_history, rx[r].chunk.data)
  /\ rx' = [rx EXCEPT ![r].pc = "trim"]
  /\ UNCHANGED <<settings, consecutive_silence, sendIter, arrived>>

\* process_output_audio lines 1107-1110: trim and return
RxTrim(r) ==
  /\ rx[r].pc = "trim"
  /\ audio_history' = Trimmed(audio_history, settings.history_size)
  /\ rx' = [rx EXCEPT ![r] = [pc |-> "idle", chunk |-> NoChunk]]
  /\ UNCHANGED <<settings, consecutive_silence, sendIter, arrived>>

\* audio_receive_loop: the loop condition is false after a hangup
RxExit(r) ==
  /\ rx[r].pc = "idle"
  /\ rx' = [rx EXCEPT ![r] = OffRx]
  /\ UNCHANGED <<settings, audio_history, consecutive_silence, sendIter, arrived>>

InitReceive ==
  /\ InitBase
  /\ audio = [e \in Ids |-> AudioOff(FALSE)]
  /\ settings \in [echo_cancellation : BOOLEAN, noise_suppression : {TRUE},
                   auto_gain_control : {TRUE}, voice_activity_detection : {TRUE},
                   input_volume : {7}, output_volume : {8},
                   history_size : 1..MaxHistory]

ReceiveStep ==
  \E r \in RxThreads :
    \/ StartReceiveLoop(r)
    \/ \E audio_data \in ReceivedChunks : RxReceive(r, audio_data)
    \/ RxAppend(r)
    \/ RxTrim(r)
    \/ RxExit(r)

NextReceive ==
  /\ ReceiveStep
  /\ UNCHANGED <<now, conn, clients, client_sockets, client_audio_addrs, calls, sent,
                 udpIn, udpSent, last, heard, ended, left, lvars, dvars, step, codec, cvars,
                 pend, frame>>

SpecReceive == InitReceive /\ [][NextReceive]_vars

\* the history holds the newest chunks that arrived, oldest first
NewestInOrder(history) ==
  /\ Len(history) <= Len(arrived)
  /\ history = SubSeq(arrived, Len(arrived) - Len(history) + 1, Len(arrived))

\* no other receive loop is inside process_output_audio
Quiet(r) == \A u \in RxThreads \ {r} : rx[u].pc \in {"off", "idle"}

\* C29: after every process_output_audio call returns (echo cancellation
\* enabled), audio_history holds at most history_size chunks, and they are
\* the most recently received chunks in arrival order, the oldest having
\* been dropped first (the order is compared when no other call of
\* process_output_audio is under way).
C29_HistoryIsRing ==
  [][\A r \in RxThreads :
       (rx[r].pc = "trim" /\ rx'[r].pc = "idle") =>
         /\ Len(audio_history') <= settings.history_size
         /\ Quiet(r) => NewestInOrder(audio_history')]_vars

\* the bound of the ring alone
AtMostHistorySize ==
  [][\A r \in RxThreads :
       (rx[r].pc = "trim" /\ rx'[r].pc = "idle") =>
         Len(audio_history') <= settings.history_size]_vars

\* ------------------------------------------- the control stream decoder
MaxBody == 2        \* bodies of 0..MaxBody bytes
MaxFrames == 2      \* the peer writes at most this many frames

BodyBytes == {120, 121}
Bodies == UNION {[1..n -> BodyBytes] : n \in 0..MaxBody}

\* struct.pack('I', n), little endian
Pack(n) == <<n % 256, (n \div 256) % 256, (n \div 65536) % 256, n \div 16777216>>

\* struct.unpack('I', length_data)[0]
Unpack(length_data) ==
  length_data[1] + 256 * length_data[2] + 65536 * length_data[3]
    + 16777216 * length_data[4]

Min(a, b) == IF a < b THEN a ELSE b

\* the peer's send_message: sendall(length + data)
PeerSend(body) ==
  /\ decoder.phase # "closed"
  /\ Len(written) < MaxFrames
  /\ wire' = wire \o Pack(Len(body)) \o body
  /\ written' = Append(written, body)
  /\ UNCHANGED <<decoder, detector>>

\* the loop ends: the outer except or a break, then the finally block
EndLoop(why) == [decoder EXCEPT !.phase = "closed", !.cause = why]

\* the message is complete (len(data) == msg_length) and handed to json.loads
Complete(data) ==
  [decoder EXCEPT !.phase = "length", !.msg_length = 0, !.data = <<>>,
                  !.messages = Append(decoder.messages, data)]

\* length_data = client_sock.recv(4) returns k bytes, 1 <= k <= 4
RecvLength(k) ==
  LET length_data == SubSeq(wire, 1, k)
  IN  /\ decoder.phase = "length"
      /\ k <= Min(4, Len(wire))
      /\ wire' = SubSeq(wire, k + 1, Len(wire))
      /\ decoder' =
           IF Len(length_data) # 4 THEN EndLoop("struct.error")
           ELSE IF Oversized(Unpack(length_data)) THEN EndLoop("oversized")
           ELSE IF Unpack(length_data) = 0 THEN Complete(<<>>)
           ELSE [decoder EXCEPT !.phase = "body",
                                !.msg_length = Unpack(length_data), !.data = <<>>]
      /\ UNCHANGED <<written, detector>>

\* chunk = client_sock.recv(min(msg_length - len(data), 4096)) returns k bytes
RecvBody(k) ==
  LET data == decoder.data \o SubSeq(wire, 1, k)
  IN  /\ decoder.phase = "body"
      /\ k <= Min(Min(decoder.msg_length - Len(decoder.data), 4096), Len(wire))
      /\ wire' = SubSeq(wire, k + 1, Len(wire))
      /\ decoder' = IF Len(data) = decoder.msg_length THEN Complete(data)
                    ELSE [decoder EXCEPT !.data = data]
      /\ UNCHANGED <<written, detector>>

\* the peer closed the connection: recv returns b''
PeerCloses ==
  /\ decoder.phase # "closed"
  /\ wire = <<>>
  /\ decoder' = EndLoop("peer_closed")
  /\ UNCHANGED <<wire, written, detector>>

StreamStep ==
  \/ \E body \in Bodies : PeerSend(body)
  \/ \E k \in 1..4 : RecvLength(k)
  \/ \E k \in 1..MaxBody : RecvBody(k)
  \/ PeerCloses

NextStream ==
  /\ StreamStep
  /\ UNCHANGED <<now, conn, clients, client_sockets, client_audio_addrs, calls, sent,
                 udpIn, udpSent, last, heard, ended, left, lvars, pvars, step, codec,
                 cvars, pend, frame>>

SpecStream == Init /\ [][NextStream]_vars

\* C31: the server's control-stream decoder yields the same sequence of
\* messages however the byte stream is split into reads: what it has decoded
\* is always the beginning of what the peer wrote and all of it once every
\* byte is read, and a length prefix that arrives in fragments of 1 to 3
\* bytes is reassembled and does not end the connection.
C31_DecoderIgnoresSplits ==
  /\ decoder.cause # "struct.error"
  /\ Len(decoder.messages) <= Len(written)
  /\ decoder.messages = SubSeq(written, 1, Len(decoder.messages))
  /\ (wire = <<>> /\ decoder.phase = "length") => decoder.messages = written

\* the same when every read of the length prefix returns its 4 bytes
WholePrefixes ==
  decoder.cause # "struct.error" =>
    /\ Len(decoder.messages) <= Len(written)
    /\ decoder.messages = SubSeq(written, 1, Len(decoder.messages))
    /\ (wire = <<>> /\ decoder.phase = "length") => decoder.messages = written

\* ------------------------------------------- learned addresses and ids
\* C32: in every reachable server state every id that has a learned audio
\* address is a currently registered endpoint: a datagram whose source id is
\* not, or no longer, registered creates no learned address.
C32_LearnedIdsAreRegistered == DOMAIN client_audio_addrs \subseteq DOMAIN clients

\* connection c is open under an id whose socket mapping names another
\* connection: a later registration of the same id superseded it
Superseded(c) ==
  /\ conn[c].state = "open"
  /\ Truthy(conn[c].client_id)
  /\ conn[c].client_id \in DOMAIN client_sockets
  /\ client_sockets[conn[c].client_id] # c

\* C33: if two control connections claim the same endpoint id (last writer
\* wins), the closing of the superseded earlier connection removes neither
\* the directory entry nor the socket mapping nor the learned address that
\* the later connection holds.
C33_SupersededCloseKeepsHolder ==
  [][\A c \in Conns :
       (Superseded(c) /\ conn'[c].state = "closed") =>
         LET id == conn[c].client_id
         IN  /\ id \in DOMAIN clients => (id \in DOMAIN clients' /\ clients'[id] = clients[id])
             /\ id \in DOMAIN client_sockets' /\ client_sockets'[id] = client_sockets[id]
             /\ id \in DOMAIN client_audio_addrs =>
                  (/\ id \in DOMAIN client_audio_addrs'
                   /\ client_audio_addrs'[id] = client_audio_addrs[id])]_vars

\* ------------------------------------------------- who may end a call
\* C34: a call_answer changes a call's state only when it is sent by that
\* call's callee: an answer for the call id sent by the caller or by a third
\* endpoint leaves the call record unchanged and causes no notification.
C34_OnlyCalleeAnswers ==
  [][\A c \in Conns, mid \in MsgIds, call_id \in NamedCallIds, accepted \in BOOLEAN :
       (/\ CallAnswer(c, mid, call_id, accepted)
        /\ call_id \in DOMAIN calls
        /\ Truthy(MsgClientId(c, mid))
        /\ MsgClientId(c, mid) # calls[call_id].callee)
       => (calls' = calls /\ sent' = <<>>)]_vars

\* C35: a call_hangup ends a call only when it is sent by the call's caller
\* or callee: a hangup for the call id sent by any other endpoint leaves the
\* call record in place and causes no notification to either participant.
C35_OnlyParticipantsHangUp ==
  [][\A c \in Conns, mid \in MsgIds, call_id \in NamedCallIds :
       (/\ CallHangup(c, mid, call_id)
        /\ call_id \in DOMAIN calls
        /\ Truthy(MsgClientId(c, mid))
        /\ MsgClientId(c, mid) \notin {calls[call_id].caller, calls[call_id].callee})
       => (calls' = calls /\ sent' = <<>>)]_vars

\* -------------------------------------------- hangups the client receives
\* client e handles a call_hangup in this step
HandlesHangup(e) ==
  /\ inbox[ConnOf(e)] # <<>>
  /\ Head(inbox[ConnOf(e)]).type = "call_hangup"
  /\ clientOp'.op = "receive"
  /\ clientOp'.who = e

\* C36: on the client a received call_hangup whose call_id differs from the
\* id of the current call leaves current_call unchanged and does not stop the
\* audio streams; only a hangup for the current call's id clears it.
C36_ForeignHangupIgnored ==
  [][\A e \in Ids :
       (/\ HandlesHangup(e)
        /\ current_call[e] # NoCall
        /\ Head(inbox[ConnOf(e)]).call_id # current_call[e].id)
       => (current_call'[e] = current_call[e] /\ audio'[e] = audio[e])]_vars

\* ------------------------------------------------ one loop of each kind
\* C37: on one client at most one capture->send loop and at most one
\* receive->playback loop are running at any time, whatever the sequence of
\* answered outgoing calls, accepted incoming calls and hangups (a new call
\* that starts before the loops of the last call have ended included).
C37_OneLoopOfEachKind ==
  \A e \in Ids : audio[e].send_loops <= 1 /\ audio[e].receive_loops <= 1

\* the same for clients that never started streams while they had streams
\* open (no call was started during a call)
OneLoopWithoutDoubleStart ==
  \A e \in Ids :
    audio[e].orphans = 0 => (audio[e].send_loops <= 1 /\ audio[e].receive_loops <= 1)

\* ------------------------------------------------------ the lock order
NextLockOrder ==
  /\ \/ \E c \in Conns, type \in MessageTypes, known, found \in BOOLEAN :
          StartHandler(c, type, known, found)
     \/ \E c \in Conns : StartCleanup(c)
     \/ StartStatus
     \/ \E source_id, target_id \in Ids :
          StartRelay(source_id, target_id, PeerAudioAddr(source_id))
     \/ \E t \in Threads : Acquire(t)
     \/ \E t \in Threads : Release(t)
     \/ \E t \in Threads : Send(t)
     \/ \E t \in Threads : WriteAddr(t)
     \/ \E t \in Threads : TestAddr(t)
     \/ \E t \in Threads : LookupAddr(t)
     \/ \E t \in Threads : FinishRelay(t)
     \/ \E t \in Threads : DelAddr(t)
  /\ UNCHANGED <<now, conn, clients, client_sockets, calls, sent, udpIn, udpSent,
                 last, heard, ended, left, step, codec, cvars, pvars, dvars, pend, frame>>

SpecLockOrder == Init /\ [][NextLockOrder]_vars

\* thread t waits for lock l
WaitsFor(t, l) == At(t, "acq") /\ Head(thread[t]).a = l /\ locks[l] # "free"

\* the thread that t waits for, t itself when it waits for nobody
Blocker(t) ==
  IF At(t, "acq") /\ locks[Head(thread[t]).a] # "free"
  THEN locks[Head(thread[t]).a] ELSE t

\* t waits, and following the threads waited for leads back to a waiting
\* thread within n steps
RECURSIVE InCycle(_, _, _)
InCycle(t, u, n) ==
  /\ At(u, "acq")
  /\ locks[Head(thread[u]).a] # "free"
  /\ \/ Blocker(u) = t
     \/ n > 0 /\ InCycle(t, Blocker(u), n - 1)

\* C38: the server's handlers cannot deadlock on the table locks: a thread
\* that takes a lock while it holds one takes clients_lock while it holds
\* calls_lock only (calls_lock was acquired first), no thread waits for
\* calls_lock while it holds clients_lock, and no cycle of threads that wait
\* for each other's locks is reachable.
C38_LockOrder ==
  /\ \A t \in Threads :
       At(t, "acq") =>
         \/ Held(t) = {}
         \/ Held(t) = {"calls_lock"} /\ Head(thread[t]).a = "clients_lock"
  /\ \A t \in Threads : ~(WaitsFor(t, "calls_lock") /\ locks["clients_lock"] = t)
  /\ \A t \in Threads : ~InCycle(t, t, Cardinality(Threads))

\* a handler holds calls_lock and clients_lock together while the status
\* thread waits for one of them and another thread for the other
C38_Witness ==
  \E t \in Conns :
    /\ Held(t) = {"calls_lock", "clients_lock"}
    /\ WaitsFor("status", "calls_lock")
    /\ \E u \in Threads \ {t, "status"} : WaitsFor(u, "clients_lock")

\* ------------------------------------------------- the voice detector
VoiceWindow == 5
VoiceQuorum == 3

\* sum(conditions), sum(self.voice_history)
RECURSIVE CountTrue(_)
CountTrue(votes) ==
  IF votes = <<>> THEN 0
  ELSE (IF Head(votes) THEN 1 ELSE 0) + CountTrue(Tail(votes))

\* detect_voice_activity lines 996-1012 on a chunk that decodes; conditions
\* are the five feature tests of the chunk
DetectVoiceActivity(conditions) ==
  LET has_voice == CountTrue(conditions) >= VoiceQuorum
      appended == Append(detector.voice_history, has_voice)
      window == IF Len(appended) > VoiceWindow THEN Tail(appended) ELSE appended
  IN  /\ detector' =
           IF detector.has_history
           THEN [has_history |-> TRUE, voice_history |-> window,
                 all_voice |-> detector.all_voice /\ has_voice,
                 voice_score |-> CountTrue(conditions),
                 returned |-> CountTrue(window) >= VoiceQuorum]
           ELSE [has_history |-> TRUE, voice_history |-> <<has_voice>>,
                 all_voice |-> detector.all_voice /\ has_voice,
                 voice_score |-> CountTrue(conditions),
                 returned |-> has_voice]
      /\ UNCHANGED <<wire, written, decoder>>

NextVad ==
  /\ \E conditions \in [1..5 -> BOOLEAN] : DetectVoiceActivity(conditions)
  /\ UNCHANGED <<now, conn, clients, client_sockets, client_audio_addrs, calls, sent,
                 udpIn, udpSent, last, heard, ended, left, lvars, pvars, step, codec,
                 cvars, pend, frame>>

SpecVad == Init /\ [][NextVad]_vars

\* C39: in detect_voice_activity, if the per-chunk vote (at least 3 of the 5
\* feature conditions) has been 'voice' for every chunk processed so far, the
\* smoothed decision returned for the current chunk is 'voice'; the sliding
\* window of votes never holds more than 5 entries.
C39_AllVoiceStaysVoice ==
  /\ detector.all_voice => detector.returned
  /\ Len(detector.voice_history) <= 5

\* the bound of the window alone
WindowAtMostFive == Len(detector.voice_history) <= 5

====
